---- MODULE Spec2Model ----
(***************************************************************************)
(* Model of the attribute -> StructureDefinition conversion pipeline:      *)
(*   raw attribute -> typed attribute -> raw forest -> path forest ->      *)
(*   extension-separated forest -> inverted forest -> SDs.                 *)
(* Every stage is a pure function of the previous stage's value; the       *)
(* driver reads the attribute files, runs the stages in sequence and keeps *)
(* each stage's diagnostics. The conversion of search parameter            *)
(* expressions (convert_path) is modelled next to it.                      *)
(***************************************************************************)
EXTENDS Integers, Sequences, FiniteSets, TLC

VARIABLES
    walker,             \* the directory entries the driver has still to visit
    read_errors,        \* what the read loop printed (walk, open, decode)
    had_errors,         \* the driver's had_errors flag
    aidbox_attributes,  \* the raw attributes read by the driver, in order
    pc,                 \* the driver's position in the pipeline
    cursor,             \* index of the next attribute of the current loop
    typed_attributes,   \* typed attributes produced by the validator
    attr_errors,        \* validator diagnostics (typed::Error)
    raw_forest,         \* raw::Forest.forest
    raw_errors,         \* raw::Error list
    path_forest,        \* path::Forest.forest
    sep_forest,         \* extension_separated::Forest.forest
    sep_errors,         \* extension_separated::Error list
    inv_forest,         \* inverted::Forest.forest
    inv_errors,         \* inverted::Error list
    exts,               \* extension SDs (collect_extensions)
    profiles,           \* profile SDs (make_profiles)
    sp_expression,      \* the search parameter expression handed to convert_path
    sp_converted        \* what convert_path returned for it, once called

vars == << walker, read_errors, had_errors, aidbox_attributes, pc, cursor,
           typed_attributes, attr_errors,
           raw_forest, raw_errors, path_forest, sep_forest, sep_errors,
           inv_forest, inv_errors, exts, profiles, sp_expression, sp_converted >>

-----------------------------------------------------------------------------
(* Option<T> is a sequence of length 0 (None) or 1 (Some).                 *)
None == << >>
Some(x) == << x >>
IsSome(o) == o # << >>
Unwrap(o) == o[1]
\* Option<bool>::is_some_and(|x| x)
IsSomeAnd(o) == o # << >> /\ o[1] = TRUE

(* Ord for String (byte order) on the strings that are used as map keys.   *)
StrOrder ==
    << "Coding", "Observation", "Patient", "Reference", "active", "date", "given",
       "http://x/ext1", "http://x/i", "http://x/o", "http://x/poly",
       "inner", "myExt", "name", "outer", "poly", "string", "system", "use" >>

SortedKeys(S) == SelectSeq(StrOrder, LAMBDA s : s \in S)

EmptyMap == << >>
MapPut(m, key, v) == [k \in (DOMAIN m) \cup {key} |-> IF k = key THEN v ELSE m[k]]

RECURSIVE Flatten(_)
Flatten(ss) == IF ss = << >> THEN << >> ELSE Head(ss) \o Flatten(Tail(ss))

RECURSIVE JoinDot(_)
\* Vec<String>::join(".")
JoinDot(p) ==
    IF p = << >> THEN ""
    ELSE IF Len(p) = 1 THEN p[1]
    ELSE p[1] \o "." \o JoinDot(Tail(p))

-----------------------------------------------------------------------------
(* Attribute validator (attribute/typed.rs)                                *)

CODED_TYPES ==
    { "code", "Coding", "CodeableConcept", "Quantity", "string", "uri", "Duration" }

STRING_TYPES ==
    { "base64Binary", "canonical", "code", "date", "dateTime", "email", "id",
      "instant", "keyword", "markdown", "oid", "password", "secret", "string",
      "time", "uri", "url", "uuid", "xhtml" }

VErr(t) == [type |-> t]
InvalidEntityReference(ref) == [type |-> "InvalidEntityReference", ref |-> ref]
InvalidValuesetReference(ref) == [type |-> "InvalidValuesetReference", ref |-> ref]
ConcreteErr(t, target) == [type |-> t, target |-> target]

check_unsupported_properties_skip_unique(attr) ==
    (IF IsSome(attr.schema) THEN << VErr("SchemaPresent") >> ELSE << >>)
    \o (IF IsSome(attr.isSummary) THEN << VErr("SummaryPresent") >> ELSE << >>)
    \o (IF IsSome(attr.isModifier) THEN << VErr("ModifierPresent") >> ELSE << >>)
    \o (IF IsSome(attr.order) THEN << VErr("OrderPresent") >> ELSE << >>)

check_unsupported_properties(attr) ==
    (IF IsSome(attr.schema) THEN << VErr("SchemaPresent") >> ELSE << >>)
    \o (IF IsSome(attr.isSummary) THEN << VErr("SummaryPresent") >> ELSE << >>)
    \o (IF IsSome(attr.isModifier) THEN << VErr("ModifierPresent") >> ELSE << >>)
    \o (IF IsSome(attr.isUnique) THEN << VErr("UniquePresent") >> ELSE << >>)
    \o (IF IsSome(attr.order) THEN << VErr("OrderPresent") >> ELSE << >>)

parse_resource_type(target) ==
    IF target.resourceType # "Entity"
    THEN [value |-> Some(target.id), error |-> Some(InvalidEntityReference(target))]
    ELSE [value |-> Some(target.id), error |-> None]

\* a parse_type that yields a target for a reference of kind Entity only
parse_type_strict(target) ==
    IF target.resourceType # "Entity"
    THEN [value |-> None, error |-> Some(InvalidEntityReference(target))]
    ELSE [value |-> Some(target.id), error |-> None]

parse_type(target) ==
    IF target.resourceType = "Attribute"
    THEN [value |-> None, error |-> Some(InvalidEntityReference(target))]
    ELSE IF target.resourceType # "Entity"
    THEN [value |-> Some(target.id), error |-> Some(InvalidEntityReference(target))]
    ELSE [value |-> Some(target.id), error |-> None]

\* a parse_value_set that accepts every reference but one to an Attribute
parse_value_set_lenient(value_set) ==
    [value |-> value_set.id,
     error |-> IF value_set.resourceType = "Attribute"
               THEN Some(InvalidValuesetReference(value_set))
               ELSE None]

parse_value_set(value_set) ==
    [value |-> value_set.id,
     error |-> IF value_set.resourceType # "ValueSet"
               THEN Some(InvalidValuesetReference(value_set))
               ELSE None]

read_target_attribute(attr) ==
    LET attr_type == Unwrap(attr.type)
        rt == parse_resource_type(attr.resource)
        e_open == IF IsSomeAnd(attr.isOpen)
                  THEN << VErr("InvalidConcrete.OpenSchema") >> ELSE << >>
        vs == IF IsSome(attr.valueSet)
              THEN parse_value_set(Unwrap(attr.valueSet))
              ELSE [value |-> "", error |-> None]
        value_set == IF IsSome(attr.valueSet) THEN Some(vs.value) ELSE None
        ty == parse_type(attr_type)
        errors0 == rt.error \o e_open \o vs.error \o ty.error
    IN  IF IsSome(ty.value)
        THEN LET target == Unwrap(ty.value)
                 errors ==
                     errors0
                     \o (IF IsSome(value_set) /\ target \notin CODED_TYPES
                         THEN << ConcreteErr("ValueSetOnWrongType", target) >>
                         ELSE << >>)
                     \o (IF IsSome(attr.enum) /\ target \notin STRING_TYPES
                         THEN << ConcreteErr("EnumOnNonStringType", target) >>
                         ELSE << >>)
                     \o (IF IsSome(attr.refers) /\ target # "Reference"
                         THEN << ConcreteErr("RefersOnNonReferenceType", target) >>
                         ELSE << >>)
             IN  IF ~IsSome(rt.value)
                 THEN [attr |-> None, errors |-> errors]
                 ELSE [attr |-> Some([id |-> attr.id,
                                      path |-> attr.path,
                                      resource_type |-> Unwrap(rt.value),
                                      kind |-> [tag |-> "Concrete",
                                                target |-> target,
                                                value_set |-> value_set,
                                                refers |-> attr.refers,
                                                enumeration |-> attr.enum],
                                      array |-> IsSomeAnd(attr.isCollection),
                                      required |-> IsSomeAnd(attr.isRequired),
                                      fce |-> attr.extensionUrl]),
                       errors |-> errors]
        ELSE [attr |-> None, errors |-> errors0]

\* a read_poly_attribute that returns no attribute once it has a diagnostic
read_poly_attribute_rejecting(attr) ==
    LET attr_types == Unwrap(attr.union)
        rt == parse_resource_type(attr.resource)
        parsed == [i \in 1..Len(attr_types) |-> parse_type(attr_types[i])]
        errors ==
            rt.error
            \o (IF IsSomeAnd(attr.isOpen)
                THEN << VErr("InvalidPolymorphic.OpenSchema") >> ELSE << >>)
            \o (IF IsSome(attr.valueSet)
                THEN << VErr("InvalidPolymorphic.ValueSetPresent") >> ELSE << >>)
            \o (IF IsSome(attr.enum)
                THEN << VErr("InvalidPolymorphic.EnumPresent") >> ELSE << >>)
            \o (IF IsSome(attr.refers)
                THEN << VErr("InvalidPolymorphic.RefersPresent") >> ELSE << >>)
            \o (IF attr_types = << >>
                THEN << VErr("InvalidPolymorphic.NoTargets") >> ELSE << >>)
            \o Flatten([i \in 1..Len(attr_types) |-> parsed[i].error])
        targets == Flatten([i \in 1..Len(attr_types) |-> parsed[i].value])
    IN  IF errors # << >> THEN [attr |-> None, errors |-> errors]
        ELSE IF targets = << >> THEN [attr |-> None, errors |-> errors]
        ELSE [attr |-> Some([id |-> attr.id,
                             path |-> attr.path,
                             resource_type |-> Unwrap(rt.value),
                             kind |-> [tag |-> "Poly", targets |-> targets],
                             array |-> IsSomeAnd(attr.isCollection),
                             required |-> IsSomeAnd(attr.isRequired),
                             fce |-> attr.extensionUrl]),
              errors |-> errors]

read_poly_attribute(attr) ==
    LET attr_types == Unwrap(attr.union)
        rt == parse_resource_type(attr.resource)
        parsed == [i \in 1..Len(attr_types) |-> parse_type(attr_types[i])]
        errors ==
            rt.error
            \o (IF IsSomeAnd(attr.isOpen)
                THEN << VErr("InvalidPolymorphic.OpenSchema") >> ELSE << >>)
            \o (IF IsSome(attr.valueSet)
                THEN << VErr("InvalidPolymorphic.ValueSetPresent") >> ELSE << >>)
            \o (IF IsSome(attr.enum)
                THEN << VErr("InvalidPolymorphic.EnumPresent") >> ELSE << >>)
            \o (IF IsSome(attr.refers)
                THEN << VErr("InvalidPolymorphic.RefersPresent") >> ELSE << >>)
            \o (IF attr_types = << >>
                THEN << VErr("InvalidPolymorphic.NoTargets") >> ELSE << >>)
            \o Flatten([i \in 1..Len(attr_types) |-> parsed[i].error])
        targets == Flatten([i \in 1..Len(attr_types) |-> parsed[i].value])
    IN  IF ~IsSome(rt.value) THEN [attr |-> None, errors |-> errors]
        ELSE IF targets = << >> THEN [attr |-> None, errors |-> errors]
        ELSE [attr |-> Some([id |-> attr.id,
                             path |-> attr.path,
                             resource_type |-> Unwrap(rt.value),
                             kind |-> [tag |-> "Poly", targets |-> targets],
                             array |-> IsSomeAnd(attr.isCollection),
                             required |-> IsSomeAnd(attr.isRequired),
                             fce |-> attr.extensionUrl]),
              errors |-> errors]

read_complex_attribute(attr) ==
    LET rt == parse_resource_type(attr.resource)
        errors ==
            rt.error
            \o (IF IsSome(attr.valueSet)
                THEN << VErr("InvalidComplex.ValueSetPresent") >> ELSE << >>)
            \o (IF IsSome(attr.enum)
                THEN << VErr("InvalidComplex.EnumPresent") >> ELSE << >>)
            \o (IF IsSome(attr.refers)
                THEN << VErr("InvalidComplex.RefersPresent") >> ELSE << >>)
    IN  IF ~IsSome(rt.value) THEN [attr |-> None, errors |-> errors]
        ELSE [attr |-> Some([id |-> attr.id,
                             path |-> attr.path,
                             resource_type |-> Unwrap(rt.value),
                             kind |-> [tag |-> "Complex",
                                       open |-> IsSomeAnd(attr.isOpen)],
                             array |-> IsSomeAnd(attr.isCollection),
                             required |-> IsSomeAnd(attr.isRequired),
                             fce |-> attr.extensionUrl]),
              errors |-> errors]

\* a build_from whose (Some, Some) arm falls through to the polymorphic reader
typed_build_from_union_wins(attr) ==
    LET read == IF IsSome(attr.union) THEN read_poly_attribute([attr EXCEPT !.type = None])
                ELSE IF IsSome(attr.type) THEN read_target_attribute(attr)
                ELSE read_complex_attribute(attr)
        errors == check_unsupported_properties(attr) \o read.errors
    IN  [attr |-> read.attr,
         errors |-> [i \in 1..Len(errors) |-> [id |-> attr.id, source |-> errors[i]]]]

typed_build_from(attr) ==
    LET read ==
            IF IsSome(attr.type) /\ ~IsSome(attr.union) THEN read_target_attribute(attr)
            ELSE IF ~IsSome(attr.type) /\ IsSome(attr.union) THEN read_poly_attribute(attr)
            ELSE IF ~IsSome(attr.type) /\ ~IsSome(attr.union) THEN read_complex_attribute(attr)
            ELSE [attr |-> None, errors |-> << VErr("InvalidKind") >>]
        errors == check_unsupported_properties(attr) \o read.errors
    IN  [attr |-> read.attr,
         errors |-> [i \in 1..Len(errors) |-> [id |-> attr.id, source |-> errors[i]]]]

-----------------------------------------------------------------------------
(* Raw forest (trie/raw.rs)                                                *)

raw_Node_new == [attribute |-> None, children |-> EmptyMap]

raw_Trie_new(resource_type) == [resource_type |-> resource_type, root |-> raw_Node_new]

RECURSIVE raw_Node_insert_last_wins(_, _, _)
\* Trie::insert overwriting the occupied slot
raw_Node_insert_last_wins(node, path, attr) ==
    IF path = << >>
    THEN IF IsSome(node.attribute)
         THEN [node |-> [node EXCEPT !.attribute = Some(attr)],
               error |-> Some([type |-> "AlreadyExists",
                               path |-> JoinDot(Unwrap(node.attribute).path)])]
         ELSE [node |-> [node EXCEPT !.attribute = Some(attr)], error |-> None]
    ELSE LET k == Head(path)
             child == IF k \in DOMAIN node.children THEN node.children[k] ELSE raw_Node_new
             r == raw_Node_insert_last_wins(child, Tail(path), attr)
         IN  [node |-> [node EXCEPT !.children = MapPut(node.children, k, r.node)],
              error |-> r.error]

RECURSIVE raw_Node_insert_leaf_only(_, _, _)
\* Trie::insert leaving a node that already has children without its attribute
raw_Node_insert_leaf_only(node, path, attr) ==
    IF path = << >>
    THEN IF IsSome(node.attribute)
         THEN [node |-> node,
               error |-> Some([type |-> "AlreadyExists",
                               path |-> JoinDot(Unwrap(node.attribute).path)])]
         ELSE IF node.children # EmptyMap THEN [node |-> node, error |-> None]
         ELSE [node |-> [node EXCEPT !.attribute = Some(attr)], error |-> None]
    ELSE LET k == Head(path)
             child == IF k \in DOMAIN node.children THEN node.children[k] ELSE raw_Node_new
             r == raw_Node_insert_leaf_only(child, Tail(path), attr)
         IN  [node |-> [node EXCEPT !.children = MapPut(node.children, k, r.node)],
              error |-> r.error]

RECURSIVE raw_Node_insert(_, _, _)
\* the descent of Trie::insert from `node` along `path`; error is the Err value
raw_Node_insert(node, path, attr) ==
    IF path = << >>
    THEN IF IsSome(node.attribute)
         THEN [node |-> node,
               error |-> Some([type |-> "AlreadyExists",
                               path |-> JoinDot(Unwrap(node.attribute).path)])]
         ELSE [node |-> [node EXCEPT !.attribute = Some(attr)], error |-> None]
    ELSE LET k == Head(path)
             child == IF k \in DOMAIN node.children THEN node.children[k] ELSE raw_Node_new
             r == raw_Node_insert(child, Tail(path), attr)
         IN  [node |-> [node EXCEPT !.children = MapPut(node.children, k, r.node)],
              error |-> r.error]

raw_Trie_insert(trie, attr) ==
    LET r == raw_Node_insert(trie.root, attr.path, attr)
    IN  [trie |-> [trie EXCEPT !.root = r.node], error |-> r.error]

raw_Forest_insert(forest, attr) ==
    LET rt == attr.resource_type
        trie == IF rt \in DOMAIN forest THEN forest[rt] ELSE raw_Trie_new(rt)
        r == raw_Trie_insert(trie, attr)
    IN  [forest |-> MapPut(forest, rt, r.trie), error |-> r.error]

-----------------------------------------------------------------------------
(* Kind-annotated lifter (trie/path.rs)                                    *)

RECURSIVE path_Node_build_from(_)
path_Node_build_from(source_node) ==
    LET children == [name \in DOMAIN source_node.children |->
                        path_Node_build_from(source_node.children[name])]
    IN  IF IsSome(source_node.attribute)
        THEN LET attribute == Unwrap(source_node.attribute)
                 kind == attribute.kind
             IN  IF kind.tag = "Poly" /\ ~IsSome(attribute.fce)
                 THEN [variant |-> "Normal", kind |-> "Polymorphic",
                       array |-> attribute.array, children |-> children,
                       id |-> attribute.id, path |-> attribute.path,
                       required |-> attribute.required,
                       resource_type |-> attribute.resource_type,
                       targets |-> kind.targets]
                 ELSE IF kind.tag = "Poly"
                 THEN [variant |-> "Extension", kind |-> "Polymorphic",
                       array |-> attribute.array, children |-> children,
                       id |-> attribute.id, path |-> attribute.path,
                       required |-> attribute.required,
                       resource_type |-> attribute.resource_type,
                       targets |-> kind.targets, fce |-> Unwrap(attribute.fce)]
                 ELSE IF kind.tag = "Concrete" /\ ~IsSome(attribute.fce)
                 THEN [variant |-> "Normal", kind |-> "Concrete",
                       array |-> attribute.array, children |-> children,
                       id |-> attribute.id, refers |-> kind.refers,
                       required |-> attribute.required,
                       resource_type |-> attribute.resource_type,
                       target |-> kind.target, value_set |-> kind.value_set]
                 ELSE IF kind.tag = "Concrete"
                 THEN [variant |-> "Extension", kind |-> "Concrete",
                       array |-> attribute.array, children |-> children,
                       id |-> attribute.id, refers |-> kind.refers,
                       required |-> attribute.required,
                       resource_type |-> attribute.resource_type,
                       target |-> kind.target, value_set |-> kind.value_set,
                       fce |-> Unwrap(attribute.fce)]
                 ELSE IF ~IsSome(attribute.fce)
                 THEN [variant |-> "Normal", kind |-> "Complex",
                       array |-> attribute.array, id |-> attribute.id,
                       open |-> kind.open, required |-> attribute.required,
                       resource_type |-> attribute.resource_type,
                       children |-> children]
                 ELSE [variant |-> "Extension", kind |-> "Complex",
                       array |-> attribute.array, id |-> attribute.id,
                       open |-> kind.open, required |-> attribute.required,
                       resource_type |-> attribute.resource_type,
                       children |-> children, fce |-> Unwrap(attribute.fce)]
        ELSE [variant |-> "Normal", kind |-> "Inferred", children |-> children]

path_Trie_build_from(source_trie) == [root |-> path_Node_build_from(source_trie.root)]

path_Forest_build_from(source_forest) ==
    [resource_type \in DOMAIN source_forest |->
        path_Trie_build_from(source_forest[resource_type])]

\* Node::get_id / NormalNode::get_id: the attribute id, None for an inferred node
path_Node_get_id(node) == IF node.kind = "Inferred" THEN None ELSE Some(node.id)

\* Extension::get_id
path_Extension_get_id(extension) == extension.id

\* a conversion that leaves the children of the extension behind
convert_to_normal_node_without_children(extension) ==
    IF extension.kind = "Concrete"
    THEN [variant |-> "Normal", kind |-> "Concrete",
          array |-> extension.array, children |-> EmptyMap,
          id |-> extension.id, refers |-> extension.refers,
          required |-> extension.required,
          resource_type |-> extension.resource_type,
          target |-> extension.target, value_set |-> extension.value_set]
    ELSE IF extension.kind = "Polymorphic"
    THEN [variant |-> "Normal", kind |-> "Polymorphic",
          array |-> extension.array, children |-> EmptyMap,
          id |-> extension.id, path |-> extension.path,
          required |-> extension.required,
          resource_type |-> extension.resource_type,
          targets |-> extension.targets]
    ELSE [variant |-> "Normal", kind |-> "Complex",
          array |-> extension.array, id |-> extension.id,
          open |-> extension.open, required |-> extension.required,
          resource_type |-> extension.resource_type,
          children |-> EmptyMap]

convert_to_normal_node(extension) ==
    IF extension.kind = "Concrete"
    THEN [variant |-> "Normal", kind |-> "Concrete",
          array |-> extension.array, children |-> extension.children,
          id |-> extension.id, refers |-> extension.refers,
          required |-> extension.required,
          resource_type |-> extension.resource_type,
          target |-> extension.target, value_set |-> extension.value_set]
    ELSE IF extension.kind = "Polymorphic"
    THEN [variant |-> "Normal", kind |-> "Polymorphic",
          array |-> extension.array, children |-> extension.children,
          id |-> extension.id, path |-> extension.path,
          required |-> extension.required,
          resource_type |-> extension.resource_type,
          targets |-> extension.targets]
    ELSE [variant |-> "Normal", kind |-> "Complex",
          array |-> extension.array, id |-> extension.id,
          open |-> extension.open, required |-> extension.required,
          resource_type |-> extension.resource_type,
          children |-> extension.children]

-----------------------------------------------------------------------------
(* Extension separator (trie/extension_separated.rs)                       *)

sep_ConcreteNode_build_from(source_node) ==
    [node |-> [variant |-> "Normal", kind |-> "Concrete",
               array |-> source_node.array, id |-> source_node.id,
               refers |-> source_node.refers, required |-> source_node.required,
               resource_type |-> source_node.resource_type,
               target |-> source_node.target, value_set |-> source_node.value_set],
     errors |-> IF source_node.children # EmptyMap
                THEN << [type |-> "ConcreteHasChild", node_id |-> source_node.id] >>
                ELSE << >>]

sep_ConcreteExtension_build_from(source_node) ==
    [node |-> [variant |-> "Extension", kind |-> "Concrete",
               array |-> source_node.array, fce |-> source_node.fce,
               id |-> source_node.id, refers |-> source_node.refers,
               required |-> source_node.required,
               resource_type |-> source_node.resource_type,
               target |-> source_node.target, value_set |-> source_node.value_set],
     errors |-> IF source_node.children # EmptyMap
                THEN << [type |-> "ConcreteHasChild", node_id |-> source_node.id] >>
                ELSE << >>]

\* PolymorphicLeaf::build_from and build_from_extension (same body)
sep_PolymorphicLeaf_build_from(source_node) ==
    [node |-> [id |-> source_node.id, refers |-> source_node.refers,
               resource_type |-> source_node.resource_type,
               target |-> source_node.target, value_set |-> source_node.value_set],
     errors |-> (IF source_node.array
                 THEN << [type |-> "PolymorphicChildHasArray", attr_id |-> source_node.id] >>
                 ELSE << >>)
                \o (IF source_node.required
                    THEN << [type |-> "PolymorphicChildIsRequired", attr_id |-> source_node.id] >>
                    ELSE << >>)]

\* a loop body that drops a concrete extension child after reporting it
sep_polymorphic_child_normal_only(attr_id, name, source_child) ==
    IF source_child.variant = "Normal" /\ source_child.kind = "Concrete"
    THEN LET r == sep_PolymorphicLeaf_build_from(source_child)
         IN  [leaf |-> Some(r.node), errors |-> r.errors]
    ELSE IF source_child.variant = "Extension" /\ source_child.kind = "Concrete"
    THEN [leaf |-> None,
          errors |-> << [type |-> "PolymorphicChildExtension",
                         attr_id |-> attr_id, child_id |-> source_child.id] >>]
    ELSE IF IsSome(path_Node_get_id(source_child))
    THEN [leaf |-> None,
          errors |-> << [type |-> "PolymorphicNonConcreteChild",
                         attr_id |-> attr_id,
                         child_id |-> Unwrap(path_Node_get_id(source_child))] >>]
    ELSE [leaf |-> None,
          errors |-> << [type |-> "PolymorphicInferredChild",
                         attr_id |-> attr_id, child_prop |-> name] >>]

\* one iteration of the loop over the children of a polymorphic node or extension
sep_polymorphic_child(attr_id, name, source_child) ==
    IF source_child.variant = "Normal" /\ source_child.kind = "Concrete"
    THEN LET r == sep_PolymorphicLeaf_build_from(source_child)
         IN  [leaf |-> Some(r.node), errors |-> r.errors]
    ELSE IF source_child.variant = "Extension" /\ source_child.kind = "Concrete"
    THEN LET r == sep_PolymorphicLeaf_build_from(source_child)
         IN  [leaf |-> Some(r.node),
              errors |-> << [type |-> "PolymorphicChildExtension",
                             attr_id |-> attr_id, child_id |-> source_child.id] >>
                         \o r.errors]
    ELSE IF IsSome(path_Node_get_id(source_child))
    THEN [leaf |-> None,
          errors |-> << [type |-> "PolymorphicNonConcreteChild",
                         attr_id |-> attr_id,
                         child_id |-> Unwrap(path_Node_get_id(source_child))] >>]
    ELSE [leaf |-> None,
          errors |-> << [type |-> "PolymorphicInferredChild",
                         attr_id |-> attr_id, child_prop |-> name] >>]

sep_polymorphic_children(source_node) ==
    LET keys == SortedKeys(DOMAIN source_node.children)
        each == [name \in DOMAIN source_node.children |->
                    sep_polymorphic_child(source_node.id, name, source_node.children[name])]
        kept == { name \in DOMAIN source_node.children : IsSome(each[name].leaf) }
    IN  [children |-> [name \in kept |-> Unwrap(each[name].leaf)],
         errors |-> Flatten([i \in 1..Len(keys) |-> each[keys[i]].errors])]

sep_PolymorphicNode_build_from(source_node) ==
    LET c == sep_polymorphic_children(source_node)
    IN  [node |-> [variant |-> "Normal", kind |-> "Polymorphic",
                   array |-> source_node.array, children |-> c.children,
                   id |-> source_node.id, path |-> source_node.path,
                   required |-> source_node.required,
                   resource_type |-> source_node.resource_type,
                   targets |-> source_node.targets],
         errors |-> c.errors]

sep_PolymorphicExtension_build_from(source_node) ==
    LET c == sep_polymorphic_children(source_node)
    IN  [node |-> [variant |-> "Extension", kind |-> "Polymorphic",
                   array |-> source_node.array, children |-> c.children,
                   id |-> source_node.id, path |-> source_node.path,
                   required |-> source_node.required,
                   resource_type |-> source_node.resource_type,
                   targets |-> source_node.targets, fce |-> source_node.fce],
         errors |-> c.errors]

RECURSIVE sep_NormalNode_build_from(_)
RECURSIVE sep_Extension_build_from(_)

\* a partition loop that converts the extension children and keeps none of them
sep_partition_children_normal_only(source_children) ==
    LET keys == SortedKeys(DOMAIN source_children)
        each == [name \in DOMAIN source_children |->
                    IF source_children[name].variant = "Normal"
                    THEN sep_NormalNode_build_from(source_children[name])
                    ELSE sep_Extension_build_from(source_children[name])]
        normal == { name \in DOMAIN source_children : source_children[name].variant = "Normal" }
    IN  [children |-> [name \in normal |-> each[name].node],
         extension |-> EmptyMap,
         errors |-> Flatten([i \in 1..Len(keys) |-> each[keys[i]].errors])]

\* the partition loop of ComplexNode::build_from and InferredNode::build_from
sep_partition_children(source_children) ==
    LET keys == SortedKeys(DOMAIN source_children)
        each == [name \in DOMAIN source_children |->
                    IF source_children[name].variant = "Normal"
                    THEN sep_NormalNode_build_from(source_children[name])
                    ELSE sep_Extension_build_from(source_children[name])]
        normal == { name \in DOMAIN source_children : source_children[name].variant = "Normal" }
        ext == { name \in DOMAIN source_children : source_children[name].variant = "Extension" }
    IN  [children |-> [name \in normal |-> each[name].node],
         extension |-> [name \in ext |-> each[name].node],
         errors |-> Flatten([i \in 1..Len(keys) |-> each[keys[i]].errors])]

sep_ComplexNode_build_from(source_node) ==
    LET p == sep_partition_children(source_node.children)
    IN  [node |-> [variant |-> "Normal", kind |-> "Complex",
                   array |-> source_node.array, id |-> source_node.id,
                   open |-> source_node.open, required |-> source_node.required,
                   resource_type |-> source_node.resource_type,
                   children |-> p.children, extension |-> p.extension],
         errors |-> p.errors]

sep_InferredNode_build_from(source_node) ==
    LET p == sep_partition_children(source_node.children)
    IN  [node |-> [variant |-> "Normal", kind |-> "Inferred",
                   children |-> p.children, extension |-> p.extension],
         errors |-> p.errors]

\* a ComplexExtension::build_from that reports every dropped child as missing
sep_ComplexExtension_build_from_all_missing(source_node) ==
    LET keys == SortedKeys(DOMAIN source_node.children)
        ext == { name \in DOMAIN source_node.children :
                    source_node.children[name].variant = "Extension" }
        each == [name \in DOMAIN source_node.children |->
                    LET source_child == source_node.children[name]
                    IN  IF source_child.variant = "Extension"
                        THEN sep_Extension_build_from(source_child).errors
                        ELSE << [type |-> "MissingChild",
                                 parent_id |-> source_node.id,
                                 child_property |-> name] >>]
    IN  [node |-> [variant |-> "Extension", kind |-> "Complex",
                   array |-> source_node.array, id |-> source_node.id,
                   open |-> source_node.open, required |-> source_node.required,
                   resource_type |-> source_node.resource_type,
                   extension |-> [name \in ext |->
                        sep_Extension_build_from(source_node.children[name]).node],
                   fce |-> source_node.fce],
         errors |-> Flatten([i \in 1..Len(keys) |-> each[keys[i]]])]

sep_ComplexExtension_build_from(source_node) ==
    LET keys == SortedKeys(DOMAIN source_node.children)
        ext == { name \in DOMAIN source_node.children :
                    source_node.children[name].variant = "Extension" }
        each == [name \in DOMAIN source_node.children |->
                    LET source_child == source_node.children[name]
                    IN  IF source_child.variant = "Extension"
                        THEN sep_Extension_build_from(source_child).errors
                        ELSE IF IsSome(path_Node_get_id(source_child))
                        THEN << [type |-> "NonExtensionInsideExtension",
                                 parent_id |-> source_node.id,
                                 child_id |-> Unwrap(path_Node_get_id(source_child))] >>
                        ELSE << [type |-> "MissingChild",
                                 parent_id |-> source_node.id,
                                 child_property |-> name] >>]
    IN  [node |-> [variant |-> "Extension", kind |-> "Complex",
                   array |-> source_node.array, id |-> source_node.id,
                   open |-> source_node.open, required |-> source_node.required,
                   resource_type |-> source_node.resource_type,
                   extension |-> [name \in ext |->
                        sep_Extension_build_from(source_node.children[name]).node],
                   fce |-> source_node.fce],
         errors |-> Flatten([i \in 1..Len(keys) |-> each[keys[i]]])]

sep_NormalNode_build_from(source_node) ==
    IF source_node.kind = "Concrete" THEN sep_ConcreteNode_build_from(source_node)
    ELSE IF source_node.kind = "Polymorphic" THEN sep_PolymorphicNode_build_from(source_node)
    ELSE IF source_node.kind = "Complex" THEN sep_ComplexNode_build_from(source_node)
    ELSE sep_InferredNode_build_from(source_node)

sep_Extension_build_from(source_node) ==
    IF source_node.kind = "Concrete" THEN sep_ConcreteExtension_build_from(source_node)
    ELSE IF source_node.kind = "Polymorphic"
    THEN sep_PolymorphicExtension_build_from(source_node)
    ELSE sep_ComplexExtension_build_from(source_node)

sep_Extension_get_url(extension) == extension.fce

\* `let mut errors` receives RootIsExtension inside the match arm; the pattern
\* `let (root, errors) = match ...` then binds a new `errors`, the vector returned
\* by NormalNode::build_from, and that one is the vector returned
sep_Trie_build_from(source_trie) ==
    LET errors == IF source_trie.root.variant = "Extension"
                  THEN << [type |-> "RootIsExtension",
                           attr_id |-> path_Extension_get_id(source_trie.root)] >>
                  ELSE << >>
        Trie(shadowed_errors, r) == [trie |-> [root |-> r.node], errors |-> r.errors]
    IN  Trie(errors,
             sep_NormalNode_build_from(
                 IF source_trie.root.variant = "Normal" THEN source_trie.root
                 ELSE convert_to_normal_node(source_trie.root)))

sep_Forest_build_from(source_forest) ==
    LET Forest(keys, each) ==
            [forest |-> [resource_type \in DOMAIN source_forest |->
                            each[resource_type].trie],
             errors |-> Flatten([i \in 1..Len(keys) |-> each[keys[i]].errors])]
    IN  Forest(SortedKeys(DOMAIN source_forest),
               [resource_type \in DOMAIN source_forest |->
                   sep_Trie_build_from(source_forest[resource_type])])

-----------------------------------------------------------------------------
(* Extension inverter (trie/inverted.rs)                                   *)

inv_ConcreteNode_build_from(source_node) ==
    [kind |-> "Concrete", array |-> source_node.array, id |-> source_node.id,
     refers |-> source_node.refers, required |-> source_node.required,
     target |-> source_node.target, value_set |-> source_node.value_set]

inv_PolymorphicLeaf_build_from(source_node) ==
    [id |-> source_node.id, refers |-> source_node.refers,
     target |-> source_node.target, value_set |-> source_node.value_set]

inv_PolymorphicNode_build_from(source_node) ==
    [kind |-> "Polymorphic", array |-> source_node.array,
     children |-> [name \in DOMAIN source_node.children |->
                      inv_PolymorphicLeaf_build_from(source_node.children[name])],
     id |-> source_node.id, path |-> source_node.path,
     required |-> source_node.required, targets |-> source_node.targets]

\* HashSet<String>: membership does not depend on the hasher, the order of
\* iteration does. A hasher is given by the order in which it lays strings out.
HashLayouts ==
    { << "Coding", "string", "Reference", "date" >>,
      << "date", "Reference", "string", "Coding" >>,
      << "string", "date", "Coding", "Reference" >> }

\* HashSet::from_iter(targets.iter().cloned())
HashSet_from_iter(items, hasher) ==
    [members |-> { items[i] : i \in 1..Len(items) },
     iter |-> SelectSeq(hasher, LAMBDA x : \E i \in 1..Len(items) : items[i] = x)]

HashSet_contains(set, x) == x \in set.members

\* a build_from_concrete that leaves the extension optional
SimpleExtension_build_from_concrete_optional(source_node, fce_property) ==
    [kind |-> "Simple", array |-> source_node.array,
     targets |-> [t \in {source_node.target} |->
                     [id |-> source_node.id, refers |-> source_node.refers,
                      value_set |-> source_node.value_set]],
     fce_property |-> fce_property, id |-> source_node.id,
     required |-> FALSE]

SimpleExtension_build_from_concrete(source_node, fce_property) ==
    [kind |-> "Simple", array |-> source_node.array,
     targets |-> [t \in {source_node.target} |->
                     [id |-> source_node.id, refers |-> source_node.refers,
                      value_set |-> source_node.value_set]],
     fce_property |-> fce_property, id |-> source_node.id,
     required |-> source_node.required]

\* a build_from_polymorphic that reports the declared targets without a child
\* while iterating the HashSet
SimpleExtension_build_from_polymorphic_iterating(source_node, fce_property, hasher) ==
    LET declared_targets == HashSet_from_iter(source_node.targets, hasher)
        each == [i \in 1..Len(declared_targets.iter) |->
                    IF declared_targets.iter[i] \notin DOMAIN source_node.children
                    THEN << [type |-> "PolymorphicUndeclaredTarget",
                             attr_id |-> source_node.id,
                             target |-> declared_targets.iter[i]] >>
                    ELSE << >>]
    IN  [node |-> [kind |-> "Simple", array |-> source_node.array,
                   targets |-> [name \in DOMAIN source_node.children |->
                                   [id |-> source_node.children[name].id,
                                    refers |-> source_node.children[name].refers,
                                    value_set |-> source_node.children[name].value_set]],
                   fce_property |-> fce_property, id |-> source_node.id,
                   required |-> source_node.required],
         errors |-> Flatten(each)]

SimpleExtension_build_from_polymorphic(source_node, fce_property, hasher) ==
    LET keys == SortedKeys(DOMAIN source_node.children)
        declared_targets == HashSet_from_iter(source_node.targets, hasher)
        each == [i \in 1..Len(keys) |->
                    IF ~HashSet_contains(declared_targets, keys[i])
                    THEN << [type |-> "PolymorphicUndeclaredTarget",
                             attr_id |-> source_node.id, target |-> keys[i]] >>
                    ELSE << >>]
    IN  [node |-> [kind |-> "Simple", array |-> source_node.array,
                   targets |-> [name \in DOMAIN source_node.children |->
                                   [id |-> source_node.children[name].id,
                                    refers |-> source_node.children[name].refers,
                                    value_set |-> source_node.children[name].value_set]],
                   fce_property |-> fce_property, id |-> source_node.id,
                   required |-> source_node.required],
         errors |-> Flatten(each)]

RECURSIVE inv_Extension_build_from(_, _, _)
RECURSIVE inv_extension_loop_last_wins(_, _, _, _, _)
RECURSIVE inv_extension_loop_named_by_url(_, _, _, _, _)
RECURSIVE inv_extension_loop(_, _, _, _, _)

\* a loop that overwrites the entry already stored under the url
inv_extension_loop_last_wins(source_extension, keys, extension, errors, hasher) ==
    IF keys = << >> THEN [extension |-> extension, errors |-> errors]
    ELSE LET name == Head(keys)
             source_ext == source_extension[name]
             url == sep_Extension_get_url(source_ext)
             r == inv_Extension_build_from(source_ext, name, hasher)
         IN  IF url \in DOMAIN extension
             THEN inv_extension_loop_last_wins(source_extension, Tail(keys),
                      MapPut(extension, url, r.node),
                      errors \o r.errors \o << [type |-> "DuplicateExtensionUrl", url |-> url] >>,
                      hasher)
             ELSE inv_extension_loop_last_wins(source_extension, Tail(keys),
                      MapPut(extension, url, r.node), errors \o r.errors, hasher)

\* a loop that hands the url, not the property name, to Extension::build_from
inv_extension_loop_named_by_url(source_extension, keys, extension, errors, hasher) ==
    IF keys = << >> THEN [extension |-> extension, errors |-> errors]
    ELSE LET name == Head(keys)
             source_ext == source_extension[name]
             url == sep_Extension_get_url(source_ext)
             r == inv_Extension_build_from(source_ext, url, hasher)
         IN  IF url \in DOMAIN extension
             THEN inv_extension_loop_named_by_url(source_extension, Tail(keys), extension,
                      errors \o r.errors \o << [type |-> "DuplicateExtensionUrl", url |-> url] >>,
                      hasher)
             ELSE inv_extension_loop_named_by_url(source_extension, Tail(keys),
                      MapPut(extension, url, r.node), errors \o r.errors, hasher)

\* `for (name, source_ext) in source_node.extension { ... }`: the loop shared by
\* ComplexNode, InferredNode and ComplexExtension, from the keys still to visit
inv_extension_loop(source_extension, keys, extension, errors, hasher) ==
    IF keys = << >> THEN [extension |-> extension, errors |-> errors]
    ELSE LET name == Head(keys)
             source_ext == source_extension[name]
             url == sep_Extension_get_url(source_ext)
             r == inv_Extension_build_from(source_ext, name, hasher)
         IN  IF url \in DOMAIN extension
             THEN inv_extension_loop(source_extension, Tail(keys), extension,
                      errors \o r.errors \o << [type |-> "DuplicateExtensionUrl", url |-> url] >>,
                      hasher)
             ELSE inv_extension_loop(source_extension, Tail(keys),
                      MapPut(extension, url, r.node), errors \o r.errors, hasher)

inv_ComplexExtension_build_from(source_node, fce_property, hasher) ==
    LET l == inv_extension_loop(source_node.extension,
                 SortedKeys(DOMAIN source_node.extension), EmptyMap, << >>, hasher)
    IN  [node |-> [kind |-> "Complex", array |-> source_node.array,
                   fce_property |-> fce_property, id |-> source_node.id,
                   open |-> source_node.open, required |-> source_node.required,
                   extension |-> l.extension],
         errors |-> l.errors]

inv_Extension_build_from(source_node, fce_property, hasher) ==
    IF source_node.kind = "Concrete"
    THEN [node |-> SimpleExtension_build_from_concrete(source_node, fce_property),
          errors |-> << >>]
    ELSE IF source_node.kind = "Polymorphic"
    THEN SimpleExtension_build_from_polymorphic(source_node, fce_property, hasher)
    ELSE inv_ComplexExtension_build_from(source_node, fce_property, hasher)

RECURSIVE inv_NormalNode_build_from(_, _)

\* the loop over source_node.children of ComplexNode and InferredNode
inv_children(source_children, hasher) ==
    LET keys == SortedKeys(DOMAIN source_children)
        each == [name \in DOMAIN source_children |->
                    inv_NormalNode_build_from(source_children[name], hasher)]
    IN  [children |-> [name \in DOMAIN source_children |-> each[name].node],
         errors |-> Flatten([i \in 1..Len(keys) |-> each[keys[i]].errors])]

inv_ComplexNode_build_from(source_node, hasher) ==
    LET c == inv_children(source_node.children, hasher)
        l == inv_extension_loop(source_node.extension,
                 SortedKeys(DOMAIN source_node.extension), EmptyMap, c.errors, hasher)
    IN  [node |-> [kind |-> "Complex", array |-> source_node.array,
                   id |-> source_node.id, open |-> source_node.open,
                   required |-> source_node.required,
                   children |-> c.children, extension |-> l.extension],
         errors |-> l.errors]

inv_InferredNode_build_from(source_node, hasher) ==
    LET c == inv_children(source_node.children, hasher)
        l == inv_extension_loop(source_node.extension,
                 SortedKeys(DOMAIN source_node.extension), EmptyMap, c.errors, hasher)
    IN  [node |-> [kind |-> "Inferred",
                   children |-> c.children, extension |-> l.extension],
         errors |-> l.errors]

inv_NormalNode_build_from(source_node, hasher) ==
    IF source_node.kind = "Concrete"
    THEN [node |-> inv_ConcreteNode_build_from(source_node), errors |-> << >>]
    ELSE IF source_node.kind = "Polymorphic"
    THEN [node |-> inv_PolymorphicNode_build_from(source_node), errors |-> << >>]
    ELSE IF source_node.kind = "Complex" THEN inv_ComplexNode_build_from(source_node, hasher)
    ELSE inv_InferredNode_build_from(source_node, hasher)

inv_Trie_build_from(source_trie, hasher) ==
    LET r == inv_NormalNode_build_from(source_trie.root, hasher)
    IN  [trie |-> [root |-> r.node], errors |-> r.errors]

inv_Forest_build_from(source_forest, hasher) ==
    LET keys == SortedKeys(DOMAIN source_forest)
        each == [resource_type \in DOMAIN source_forest |->
                    inv_Trie_build_from(source_forest[resource_type], hasher)]
    IN  [forest |-> [resource_type \in DOMAIN source_forest |-> each[resource_type].trie],
         errors |-> Flatten([i \in 1..Len(keys) |-> each[keys[i]].errors])]

-----------------------------------------------------------------------------
(* SD emitter (trie/fhir.rs)                                               *)

LEGACY_FCE == "http://fhir.aidbox.app/fhir/StructureDefinition/legacy-fce"

\* an ElementDefinition with every optional field None
ElementDefinition(id, path) ==
    [id |-> id, path |-> path, slice_name |-> None, min |-> None, max |-> None,
     fixed_url |-> None, slicing |-> None, type |-> None, binding |-> None,
     extension |-> None]

LegacyFce(fce_property) == Some(<< [url |-> LEGACY_FCE, value_string |-> fce_property] >>)

\* target_types that copies refers into target_profile without the FHIR prefix
target_types_unprefixed(targets) ==
    LET keys == SortedKeys(DOMAIN targets)
    IN  [i \in 1..Len(keys) |->
            [code |-> keys[i],
             profile |-> None,
             target_profile |-> targets[keys[i]].refers]]

\* the ElementType list built from SimpleExtension.targets, in key order
target_types(targets) ==
    LET keys == SortedKeys(DOMAIN targets)
    IN  [i \in 1..Len(keys) |->
            [code |-> keys[i],
             profile |-> None,
             target_profile |->
                 IF IsSome(targets[keys[i]].refers)
                 THEN LET refs == Unwrap(targets[keys[i]].refers)
                      IN  Some([j \in 1..Len(refs) |-> "http://hl7.org/fhir/" \o refs[j]])
                 ELSE None]]

\* the value-set slices appended after the value[x] element, in key order
value_set_slices(ptr, targets) ==
    LET keys == SortedKeys(DOMAIN targets)
        each == [i \in 1..Len(keys) |->
                    IF IsSome(targets[keys[i]].value_set)
                    THEN << [ElementDefinition(ptr.id \o ":value" \o keys[i], ptr.path)
                                EXCEPT !.slice_name = Some("value" \o keys[i]),
                                       !.binding = Some([value_set |->
                                            Unwrap(targets[keys[i]].value_set)])] >>
                    ELSE << >>]
    IN  Flatten(each)

RECURSIVE emit_nested_simple_by_flags(_, _, _)
\* an emit_nested that gives a simple child the cardinality of its flags
emit_nested_simple_by_flags(ptr, url, extension) ==
    IF extension.kind = "Simple"
    THEN LET base_elem ==
                 [ElementDefinition(ptr.id \o ":" \o extension.fce_property, ptr.path)
                     EXCEPT !.slice_name = Some(extension.fce_property),
                            !.min = Some(IF extension.required THEN 1 ELSE 0),
                            !.max = Some(IF extension.array THEN "*" ELSE "1"),
                            !.extension = LegacyFce(extension.fce_property)]
             url_elem ==
                 [ElementDefinition(base_elem.id \o ".url", base_elem.path \o ".url")
                     EXCEPT !.min = Some(1), !.max = Some("1"), !.fixed_url = Some(url)]
             value_elem ==
                 [ElementDefinition(base_elem.id \o ".value[x]", base_elem.path \o ".value[x]")
                     EXCEPT !.min = Some(1), !.max = Some("1"),
                            !.type = Some(target_types(extension.targets))]
         IN  << base_elem, url_elem, value_elem >>
             \o value_set_slices([id |-> value_elem.id, path |-> value_elem.path],
                                 extension.targets)
    ELSE LET base_elem ==
                 [ElementDefinition(ptr.id \o ":" \o extension.fce_property, ptr.path)
                     EXCEPT !.min = IF extension.required THEN Some(1) ELSE None,
                            !.max = IF extension.array THEN None ELSE Some("1"),
                            !.extension = LegacyFce(extension.fce_property)]
             extension_elem ==
                 [ElementDefinition(base_elem.id \o ".extension",
                                    base_elem.path \o ".extension")
                     EXCEPT !.min = Some(1), !.slicing = Some([rules |-> "open"])]
             url_elem ==
                 [ElementDefinition(base_elem.id \o ".url", base_elem.path \o ".url")
                     EXCEPT !.min = Some(1), !.max = Some("1"), !.fixed_url = Some(url)]
             value_elem ==
                 [ElementDefinition(base_elem.id \o ".value[x]", base_elem.path \o ".value[x]")
                     EXCEPT !.min = Some(0), !.max = Some("0")]
             keys == SortedKeys(DOMAIN extension.extension)
             nested == Flatten([i \in 1..Len(keys) |->
                           emit_nested_simple_by_flags(
                               [id |-> extension_elem.id, path |-> extension_elem.path],
                               keys[i], extension.extension[keys[i]])])
         IN  << base_elem, extension_elem >> \o nested \o << url_elem, value_elem >>

RECURSIVE emit_nested(_, _, _)
emit_nested(ptr, url, extension) ==
    IF extension.kind = "Simple"
    THEN LET base_elem ==
                 [ElementDefinition(ptr.id \o ":" \o extension.fce_property, ptr.path)
                     EXCEPT !.slice_name = Some(extension.fce_property),
                            !.min = Some(0), !.max = Some("*"),
                            !.extension = LegacyFce(extension.fce_property)]
             url_elem ==
                 [ElementDefinition(base_elem.id \o ".url", base_elem.path \o ".url")
                     EXCEPT !.min = Some(1), !.max = Some("1"), !.fixed_url = Some(url)]
             value_elem ==
                 [ElementDefinition(base_elem.id \o ".value[x]", base_elem.path \o ".value[x]")
                     EXCEPT !.min = Some(1), !.max = Some("1"),
                            !.type = Some(target_types(extension.targets))]
         IN  << base_elem, url_elem, value_elem >>
             \o value_set_slices([id |-> value_elem.id, path |-> value_elem.path],
                                 extension.targets)
    ELSE LET base_elem ==
                 [ElementDefinition(ptr.id \o ":" \o extension.fce_property, ptr.path)
                     EXCEPT !.min = IF extension.required THEN Some(1) ELSE None,
                            !.max = IF extension.array THEN None ELSE Some("1"),
                            !.extension = LegacyFce(extension.fce_property)]
             extension_elem ==
                 [ElementDefinition(base_elem.id \o ".extension",
                                    base_elem.path \o ".extension")
                     EXCEPT !.min = Some(1), !.slicing = Some([rules |-> "open"])]
             url_elem ==
                 [ElementDefinition(base_elem.id \o ".url", base_elem.path \o ".url")
                     EXCEPT !.min = Some(1), !.max = Some("1"), !.fixed_url = Some(url)]
             value_elem ==
                 [ElementDefinition(base_elem.id \o ".value[x]", base_elem.path \o ".value[x]")
                     EXCEPT !.min = Some(0), !.max = Some("0")]
             keys == SortedKeys(DOMAIN extension.extension)
             nested == Flatten([i \in 1..Len(keys) |->
                           emit_nested([id |-> extension_elem.id, path |-> extension_elem.path],
                                       keys[i], extension.extension[keys[i]])])
         IN  << base_elem, extension_elem >> \o nested \o << url_elem, value_elem >>

\* emit_differential with the child groups of a complex extension laid out in
\* descending URL order
emit_differential_children_reversed(url, extension) ==
    IF extension.kind = "Simple"
    THEN LET root ==
                 [ElementDefinition("Extension", "Extension")
                     EXCEPT !.min = Some(IF extension.required THEN 1 ELSE 0),
                            !.max = Some(IF extension.array THEN "*" ELSE "1"),
                            !.extension = LegacyFce(extension.fce_property)]
             url_elem ==
                 [ElementDefinition("Extension.url", "Extension.url")
                     EXCEPT !.min = Some(1), !.max = Some("1"), !.fixed_url = Some(url)]
             value_elem ==
                 [ElementDefinition("Extension.value[x]", "Extension.value[x]")
                     EXCEPT !.min = Some(1), !.max = Some("1"),
                            !.type = Some(target_types(extension.targets))]
         IN  << root, url_elem, value_elem >>
             \o value_set_slices([id |-> "Extension.value[x]", path |-> "Extension.value[x]"],
                                 extension.targets)
    ELSE LET root ==
                 [ElementDefinition("Extension", "Extension")
                     EXCEPT !.min = Some(IF extension.required THEN 1 ELSE 0),
                            !.max = Some(IF extension.array THEN "*" ELSE "1"),
                            !.extension = LegacyFce(extension.fce_property)]
             base_elem ==
                 [ElementDefinition("Extension.extension", "Extension.extension")
                     EXCEPT !.min = Some(1), !.slicing = Some([rules |-> "open"])]
             url_elem ==
                 [ElementDefinition("Extension.url", "Extension.url")
                     EXCEPT !.min = Some(1), !.max = Some("1"), !.fixed_url = Some(url)]
             value_elem ==
                 [ElementDefinition("Extension.value[x]", "Extension.value[x]")
                     EXCEPT !.min = Some(0), !.max = Some("0")]
             keys == SortedKeys(DOMAIN extension.extension)
             nested == Flatten([i \in 1..Len(keys) |->
                           emit_nested([path |-> "Extension.extension",
                                        id |-> "Extension.extension"],
                                       keys[Len(keys) + 1 - i],
                                       extension.extension[keys[Len(keys) + 1 - i]])])
         IN  << root, base_elem >> \o nested \o << url_elem, value_elem >>

emit_differential(url, extension) ==
    IF extension.kind = "Simple"
    THEN LET root ==
                 [ElementDefinition("Extension", "Extension")
                     EXCEPT !.min = Some(IF extension.required THEN 1 ELSE 0),
                            !.max = Some(IF extension.array THEN "*" ELSE "1"),
                            !.extension = LegacyFce(extension.fce_property)]
             url_elem ==
                 [ElementDefinition("Extension.url", "Extension.url")
                     EXCEPT !.min = Some(1), !.max = Some("1"), !.fixed_url = Some(url)]
             value_elem ==
                 [ElementDefinition("Extension.value[x]", "Extension.value[x]")
                     EXCEPT !.min = Some(1), !.max = Some("1"),
                            !.type = Some(target_types(extension.targets))]
         IN  << root, url_elem, value_elem >>
             \o value_set_slices([id |-> "Extension.value[x]", path |-> "Extension.value[x]"],
                                 extension.targets)
    ELSE LET root ==
                 [ElementDefinition("Extension", "Extension")
                     EXCEPT !.min = Some(IF extension.required THEN 1 ELSE 0),
                            !.max = Some(IF extension.array THEN "*" ELSE "1"),
                            !.extension = LegacyFce(extension.fce_property)]
             base_elem ==
                 [ElementDefinition("Extension.extension", "Extension.extension")
                     EXCEPT !.min = Some(1), !.slicing = Some([rules |-> "open"])]
             url_elem ==
                 [ElementDefinition("Extension.url", "Extension.url")
                     EXCEPT !.min = Some(1), !.max = Some("1"), !.fixed_url = Some(url)]
             value_elem ==
                 [ElementDefinition("Extension.value[x]", "Extension.value[x]")
                     EXCEPT !.min = Some(0), !.max = Some("0")]
             keys == SortedKeys(DOMAIN extension.extension)
             nested == Flatten([i \in 1..Len(keys) |->
                           emit_nested([path |-> "Extension.extension",
                                        id |-> "Extension.extension"],
                                       keys[i], extension.extension[keys[i]])])
         IN  << root, base_elem >> \o nested \o << url_elem, value_elem >>

RECURSIVE DotFold(_, _)
\* path.iter().fold(acc, |acc, c| acc + "." + c)
DotFold(acc, path) ==
    IF path = << >> THEN acc ELSE DotFold(acc \o "." \o Head(path), Tail(path))

emit_extension(rt, path, url, extension) ==
    [base_definition |-> "http://hl7.org/fhir/StructureDefinition/Extension",
     abstract |-> FALSE,
     status |-> "active",
     url |-> url,
     differential |-> emit_differential(url, extension),
     name |-> extension.fce_property,
     derivation |-> "constraint",
     context |-> Some(<< [type |-> "element", expression |-> DotFold(rt, path)] >>),
     kind |-> "complex-type",
     type |-> "Extension"]

\* collect_extensions_recursive without the descent into the children
collect_extensions_recursive_root_only(rt, path, node) ==
    IF node.kind \in {"Complex", "Inferred"}
    THEN LET urls == SortedKeys(DOMAIN node.extension)
         IN  [i \in 1..Len(urls) |->
                emit_extension(rt, path, urls[i], node.extension[urls[i]])]
    ELSE << >>

RECURSIVE collect_extensions_recursive(_, _, _)
collect_extensions_recursive(rt, path, node) ==
    IF node.kind \in {"Complex", "Inferred"}
    THEN LET fields == SortedKeys(DOMAIN node.children)
             urls == SortedKeys(DOMAIN node.extension)
         IN  Flatten([i \in 1..Len(fields) |->
                 collect_extensions_recursive(rt, Append(path, fields[i]),
                                              node.children[fields[i]])])
             \o [i \in 1..Len(urls) |->
                    emit_extension(rt, path, urls[i], node.extension[urls[i]])]
    ELSE << >>

collect_extensions(forest) ==
    LET rts == SortedKeys(DOMAIN forest)
    IN  Flatten([i \in 1..Len(rts) |->
            collect_extensions_recursive(rts[i], << >>, forest[rts[i]].root)])

\* inverted::Extension accessors used by the profile emitter
inv_Extension_get_fce_property(ext) == ext.fce_property
inv_Extension_is_required(ext) == ext.required
inv_Extension_is_array(ext) == ext.array

\* make_profile_differential without the descent into the children
make_profile_differential_root_only(rt, path, node) ==
    IF node.kind \in {"Complex", "Inferred"}
    THEN LET fhir_path == DotFold(rt, path) \o ".extension"
             urls == SortedKeys(DOMAIN node.extension)
         IN  [i \in 1..Len(urls) |->
                LET ext == node.extension[urls[i]]
                    fce_property == inv_Extension_get_fce_property(ext)
                IN  [ElementDefinition(fhir_path \o ":" \o fce_property, fhir_path)
                        EXCEPT !.slice_name = Some(fce_property),
                               !.min = IF inv_Extension_is_required(ext)
                                       THEN Some(1) ELSE None,
                               !.max = IF inv_Extension_is_array(ext)
                                       THEN Some("*") ELSE Some("1"),
                               !.type = Some(<< [code |-> "Extension",
                                                 target_profile |-> None,
                                                 profile |-> Some(<< urls[i] >>)] >>)]]
    ELSE << >>

RECURSIVE make_profile_differential(_, _, _)
make_profile_differential(rt, path, node) ==
    IF node.kind \in {"Complex", "Inferred"}
    THEN LET fhir_path == DotFold(rt, path) \o ".extension"
             urls == SortedKeys(DOMAIN node.extension)
             names == SortedKeys(DOMAIN node.children)
         IN  [i \in 1..Len(urls) |->
                LET ext == node.extension[urls[i]]
                    fce_property == inv_Extension_get_fce_property(ext)
                IN  [ElementDefinition(fhir_path \o ":" \o fce_property, fhir_path)
                        EXCEPT !.slice_name = Some(fce_property),
                               !.min = IF inv_Extension_is_required(ext)
                                       THEN Some(1) ELSE None,
                               !.max = IF inv_Extension_is_array(ext)
                                       THEN Some("*") ELSE Some("1"),
                               !.type = Some(<< [code |-> "Extension",
                                                 target_profile |-> None,
                                                 profile |-> Some(<< urls[i] >>)] >>)]]
             \o Flatten([i \in 1..Len(names) |->
                    make_profile_differential(rt, Append(path, names[i]),
                                              node.children[names[i]])])
    ELSE << >>

\* make_profile_recursive without the early return on an empty element list
make_profile_recursive_keep_empty(rt, path, node) ==
    Some([status |-> "active",
          base_definition |-> "http://hl7.org/fhir/StructureDefinition/" \o rt,
          abstract |-> FALSE,
          url |-> "http://legacy.aidbox.app/fhir/StructureDefinition/" \o rt,
          name |-> rt,
          derivation |-> "constraint",
          context |-> None,
          differential |-> << ElementDefinition(rt, rt) >>
                           \o make_profile_differential(rt, path, node),
          kind |-> "resource",
          type |-> rt])

make_profile_recursive(rt, path, node) ==
    LET elements == make_profile_differential(rt, path, node)
    IN  IF elements = << >> THEN None
        ELSE Some([status |-> "active",
                   base_definition |-> "http://hl7.org/fhir/StructureDefinition/" \o rt,
                   abstract |-> FALSE,
                   url |-> "http://legacy.aidbox.app/fhir/StructureDefinition/" \o rt,
                   name |-> rt,
                   derivation |-> "constraint",
                   context |-> None,
                   differential |-> << ElementDefinition(rt, rt) >> \o elements,
                   kind |-> "resource",
                   type |-> rt])

make_profile_for(rt, node) == make_profile_recursive(rt, << >>, node)

make_profiles(forest) ==
    LET rts == SortedKeys(DOMAIN forest)
    IN  Flatten([i \in 1..Len(rts) |-> make_profile_for(rts[i], forest[rts[i]].root)])

-----------------------------------------------------------------------------
(* Search parameter expressions (search_param/fhir.rs)                     *)

\* A Rust string is kept here as a TLA+ string; where the code looks inside one
\* it is taken apart into pieces, each a backslash, a single quote, or a run
\* of other characters.
Pieces(s) ==
    CASE s = "it's" -> << "it", "'", "s" >>
      [] s = "a\\b" -> << "a", "\\", "b" >>
      [] s = "\\'" -> << "\\", "'" >>
      [] s = "http://x/o'k" -> << "http://x/o", "'", "k" >>
      [] OTHER -> << s >>

RECURSIVE Concat(_)
Concat(pieces) == IF pieces = << >> THEN "" ELSE Head(pieces) \o Concat(Tail(pieces))

\* str::replace of a one-character pattern
str_replace(pieces, from, to) ==
    Flatten([i \in 1..Len(pieces) |-> IF pieces[i] = from THEN to ELSE << pieces[i] >>])

\* s.replace(r#"\"#, r#"\\"#).replace(r#"'"#, r#"\'"#)
escape_fhirpath_string(s) ==
    Concat(str_replace(str_replace(Pieces(s), "\\", << "\\", "\\" >>), "'", << "\\", "'" >>))

RECURSIVE join(_, _)
\* [String]::join(sep)
join(strings, sep) ==
    IF strings = << >> THEN ""
    ELSE IF Len(strings) = 1 THEN strings[1]
    ELSE strings[1] \o sep \o join(Tail(strings), sep)

Ok(value) == [ok |-> TRUE, value |-> value]
Err(error) == [ok |-> FALSE, error |-> error]

\* serde_json::Value
Null == [tag |-> "Null"]
Bool(b) == [tag |-> "Bool", b |-> b]
Number(n) == [tag |-> "Number", n |-> n]
String(s) == [tag |-> "String", s |-> s]
Array == [tag |-> "Array"]
Object == [tag |-> "Object"]

\* SearchParameterExpressionItem
Path(name) == [tag |-> "Path", name |-> name]
Index(i) == [tag |-> "Index", i |-> i]
Filter(filter) == [tag |-> "Filter", filter |-> filter]

filter_to_expression(filter) ==
    LET keys == SortedKeys(DOMAIN filter)
        \* the closure of filter_map: nothing, a term or an error
        term(k) ==
            LET v == filter[k]
            IN  IF v.tag = "Null" THEN None
                ELSE IF v.tag = "Bool" THEN Some(Ok(k \o "=" \o "true"))
                ELSE IF v.tag = "Number" THEN Some(Ok(k \o "=" \o ToString(v.n)))
                ELSE IF v.tag = "String"
                THEN Some(Ok(k \o "=" \o "'" \o escape_fhirpath_string(v.s) \o "'"))
                ELSE Some(Err([type |-> "TooComplexFilter", filter |-> filter]))
        terms == Flatten([i \in 1..Len(keys) |-> term(keys[i])])
        \* collect::<Result<Vec<String>, Error>>(): the first error, if any
        errors == SelectSeq(terms, LAMBDA t : ~t.ok)
    IN  IF errors # << >> THEN errors[1]
        ELSE Ok("where(" \o join([i \in 1..Len(terms) |-> terms[i].value], " and ") \o ")")

RECURSIVE convert_path_loop_index_in_prefix(_, _, _, _, _)
\* a loop that counts an Index item into the prefix
convert_path_loop_index_in_prefix(attributes, expr, items, res, prefix) ==
    IF items = << >> THEN Ok(res)
    ELSE LET item == Head(items)
         IN  IF item.tag = "Filter"
             THEN LET Rendered(f) ==
                          IF f.ok
                          THEN convert_path_loop_index_in_prefix(attributes, expr, Tail(items),
                                                 res \o "." \o f.value, prefix)
                          ELSE f
                  IN  Rendered(filter_to_expression(item.filter))
             ELSE IF item.tag = "Index"
             THEN convert_path_loop_index_in_prefix(attributes, expr, Tail(items),
                                    res \o "[" \o ToString(item.i) \o "]",
                                    Append(prefix, ToString(item.i)))
             ELSE LET found == { i \in 1..Len(attributes) :
                                   attributes[i].path = Append(prefix, item.name) }
                      \* attributes.iter().find(..): the first one
                      attribute == attributes[CHOOSE i \in found : \A j \in found : i <= j]
                  IN  IF found = {}
                      THEN convert_path_loop_index_in_prefix(attributes, expr, Tail(items),
                                             res \o "." \o item.name,
                                             Append(prefix, item.name))
                      ELSE IF IsSome(attribute.enum)
                      THEN Err([type |-> "EnumAttributeNotImplemented",
                                expression |-> expr])
                      ELSE IF IsSome(attribute.extensionUrl)
                      THEN convert_path_loop_index_in_prefix(attributes, expr, Tail(items),
                               res \o "." \o "extension('"
                                   \o escape_fhirpath_string(Unwrap(attribute.extensionUrl))
                                   \o "')"
                                   \o (IF IsSome(attribute.type)
                                       THEN ".value.ofType(" \o Unwrap(attribute.type).id \o ")"
                                       ELSE ""),
                               Append(prefix, item.name))
                      ELSE convert_path_loop_index_in_prefix(attributes, expr, Tail(items),
                                             res \o "." \o item.name,
                                             Append(prefix, item.name))

RECURSIVE convert_path_loop(_, _, _, _, _)
\* the loop of convert_path over the items still to render
convert_path_loop(attributes, expr, items, res, prefix) ==
    IF items = << >> THEN Ok(res)
    ELSE LET item == Head(items)
         IN  IF item.tag = "Filter"
             THEN LET Rendered(f) ==
                          IF f.ok
                          THEN convert_path_loop(attributes, expr, Tail(items),
                                                 res \o "." \o f.value, prefix)
                          ELSE f
                  IN  Rendered(filter_to_expression(item.filter))
             ELSE IF item.tag = "Index"
             THEN convert_path_loop(attributes, expr, Tail(items),
                                    res \o "[" \o ToString(item.i) \o "]", prefix)
             ELSE LET found == { i \in 1..Len(attributes) :
                                   attributes[i].path = Append(prefix, item.name) }
                      \* attributes.iter().find(..): the first one
                      attribute == attributes[CHOOSE i \in found : \A j \in found : i <= j]
                  IN  IF found = {}
                      THEN convert_path_loop(attributes, expr, Tail(items),
                                             res \o "." \o item.name,
                                             Append(prefix, item.name))
                      ELSE IF IsSome(attribute.enum)
                      THEN Err([type |-> "EnumAttributeNotImplemented",
                                expression |-> expr])
                      ELSE IF IsSome(attribute.extensionUrl)
                      THEN convert_path_loop(attributes, expr, Tail(items),
                               res \o "." \o "extension('"
                                   \o escape_fhirpath_string(Unwrap(attribute.extensionUrl))
                                   \o "')"
                                   \o (IF IsSome(attribute.type)
                                       THEN ".value.ofType(" \o Unwrap(attribute.type).id \o ")"
                                       ELSE ""),
                               Append(prefix, item.name))
                      ELSE convert_path_loop(attributes, expr, Tail(items),
                                             res \o "." \o item.name,
                                             Append(prefix, item.name))

convert_path(resource_type, attributes, expr) ==
    convert_path_loop(attributes, expr, expr, resource_type, << >>)

-----------------------------------------------------------------------------
(* The driver (main.rs): the stages in order, one action per call          *)

\* the validation loop of main over the raw attributes; main.rs still names the
\* conversion try_from, typed.rs provides it as Attribute::build_from, whose typed
\* attribute (if any) is kept and whose diagnostics are collected
Validate ==
    /\ pc = "validate"
    /\ cursor <= Len(aidbox_attributes)
    /\ LET r == typed_build_from(aidbox_attributes[cursor])
       IN  /\ typed_attributes' = typed_attributes \o r.attr
           /\ attr_errors' = attr_errors \o r.errors
           /\ had_errors' = (had_errors \/ r.errors # << >>)
    /\ IF cursor = Len(aidbox_attributes)
       THEN pc' = "raw" /\ cursor' = 1
       ELSE pc' = "validate" /\ cursor' = cursor + 1
    /\ UNCHANGED << sp_expression, sp_converted, walker, read_errors >>
    /\ UNCHANGED << aidbox_attributes, raw_forest, raw_errors,
                    path_forest, sep_forest, sep_errors, inv_forest, inv_errors,
                    exts, profiles >>

\* one iteration of Forest::build_from_attributes: forest.insert(attr)
Insert ==
    /\ pc = "raw"
    /\ cursor <= Len(typed_attributes)
    /\ LET r == raw_Forest_insert(raw_forest, typed_attributes[cursor])
       IN  /\ raw_forest' = r.forest
           /\ raw_errors' = raw_errors \o r.error
    /\ cursor' = cursor + 1
    /\ UNCHANGED << sp_expression, sp_converted, walker, read_errors, had_errors >>
    /\ UNCHANGED << aidbox_attributes, pc, typed_attributes, attr_errors, path_forest,
                    sep_forest, sep_errors, inv_forest, inv_errors, exts, profiles >>

\* path::Forest::build_from, once every attribute is inserted
Lift ==
    /\ pc = "raw"
    /\ cursor > Len(typed_attributes)
    /\ had_errors' = (had_errors \/ raw_errors # << >>)
    /\ path_forest' = path_Forest_build_from(raw_forest)
    /\ pc' = "separate"
    /\ UNCHANGED << sp_expression, sp_converted, walker, read_errors >>
    /\ UNCHANGED << aidbox_attributes, cursor, typed_attributes, attr_errors, raw_forest,
                    raw_errors, sep_forest, sep_errors, inv_forest, inv_errors,
                    exts, profiles >>

\* extension_separated::Forest::build_from
Separate ==
    /\ pc = "separate"
    /\ \E r \in { sep_Forest_build_from(path_forest) } :
           /\ sep_forest' = r.forest
           /\ sep_errors' = r.errors
           /\ had_errors' = (had_errors \/ r.errors # << >>)
    /\ pc' = "invert"
    /\ UNCHANGED << sp_expression, sp_converted, walker, read_errors >>
    /\ UNCHANGED << aidbox_attributes, cursor, typed_attributes, attr_errors, raw_forest,
                    raw_errors, path_forest, inv_forest, inv_errors, exts, profiles >>

\* inverted::Forest::build_from, under whatever keys the hasher of the HashSet in
\* build_from_polymorphic was seeded with
Invert ==
    /\ pc = "invert"
    /\ \E hasher \in HashLayouts :
          LET r == inv_Forest_build_from(sep_forest, hasher)
          IN  /\ inv_forest' = r.forest
              /\ inv_errors' = r.errors
              /\ had_errors' = (had_errors \/ r.errors # << >>)
    /\ pc' = "emit"
    /\ UNCHANGED << sp_expression, sp_converted, walker, read_errors >>
    /\ UNCHANGED << aidbox_attributes, cursor, typed_attributes, attr_errors, raw_forest,
                    raw_errors, path_forest, sep_forest, sep_errors, exts, profiles >>

\* fhir::collect_extensions, whose error list is always empty, and
\* fhir::make_profiles on the same forest
Emit ==
    /\ pc = "emit"
    /\ exts' = collect_extensions(inv_forest)
    /\ profiles' = make_profiles(inv_forest)
    /\ pc' = "done"
    /\ UNCHANGED << sp_expression, sp_converted, walker, read_errors, had_errors >>
    /\ UNCHANGED << aidbox_attributes, cursor, typed_attributes, attr_errors, raw_forest,
                    raw_errors, path_forest, sep_forest, sep_errors, inv_forest,
                    inv_errors >>

Next == Validate \/ Insert \/ Lift \/ Separate \/ Invert \/ Emit

is_json(extension) == extension = "json"
is_yaml(extension) == extension \in { "yaml", "yml" }
is_json_or_yaml(extension) == is_json(extension) \/ is_yaml(extension)

\* one iteration of the read loop of main over the walker: a walk error is
\* printed and skipped, a file that is neither JSON nor YAML is skipped, a file
\* that cannot be opened or decoded is printed and sets had_errors, any other
\* file adds its attribute
ReadEntry ==
    /\ pc = "read"
    /\ walker # << >>
    /\ LET entry == Head(walker)
       IN  IF ~entry.walked
           THEN /\ read_errors' = Append(read_errors, [type |-> "walk"])
                /\ UNCHANGED << had_errors, aidbox_attributes >>
           ELSE IF ~is_json_or_yaml(entry.extension)
           THEN UNCHANGED << read_errors, had_errors, aidbox_attributes >>
           ELSE IF ~entry.opened
           THEN /\ read_errors' = Append(read_errors, [type |-> "open"])
                /\ had_errors' = TRUE
                /\ UNCHANGED aidbox_attributes
           ELSE IF is_json(entry.extension)
           THEN IF IsSome(entry.attribute)
                THEN /\ aidbox_attributes' = Append(aidbox_attributes, Unwrap(entry.attribute))
                     /\ UNCHANGED << read_errors, had_errors >>
                ELSE /\ read_errors' = Append(read_errors, [type |-> "from_json"])
                     /\ had_errors' = TRUE
                     /\ UNCHANGED aidbox_attributes
           ELSE IF IsSome(entry.attribute)
                THEN /\ aidbox_attributes' = Append(aidbox_attributes, Unwrap(entry.attribute))
                     /\ UNCHANGED << read_errors, had_errors >>
                ELSE /\ read_errors' = Append(read_errors, [type |-> "from_yaml"])
                     /\ had_errors' = TRUE
                     /\ UNCHANGED aidbox_attributes
    /\ walker' = Tail(walker)
    /\ pc' = IF Tail(walker) # << >> THEN "read"
             ELSE IF aidbox_attributes' = << >> THEN "raw" ELSE "validate"
    /\ UNCHANGED << sp_expression, sp_converted, cursor, typed_attributes, attr_errors,
                    raw_forest, raw_errors, path_forest, sep_forest, sep_errors,
                    inv_forest, inv_errors, exts, profiles >>

\* main from its first statement: the read loop, then the stages
NextFromRead ==
    ReadEntry \/ Validate \/ Insert \/ Lift \/ Separate \/ Invert \/ Emit

\* what main returns: Err, and so status 1, exactly when had_errors is set
exit_status == IF had_errors THEN 1 ELSE 0

\* one call of convert_path, as convert makes it for an expression of a search
\* parameter of Patient with the attributes of Patient
ConvertPath ==
    /\ pc = "convert"
    /\ sp_converted' = Some(convert_path("Patient", aidbox_attributes, sp_expression))
    /\ pc' = "converted"
    /\ UNCHANGED << sp_expression, walker, read_errors, had_errors, aidbox_attributes,
                    cursor, typed_attributes, attr_errors, raw_forest, raw_errors,
                    path_forest, sep_forest, sep_errors, inv_forest, inv_errors,
                    exts, profiles >>

\* the driver's state before the first attribute is validated, every file of the
\* directory read without a diagnostic
Start(input) ==
    /\ walker = << >>
    /\ read_errors = << >>
    /\ had_errors = FALSE
    /\ aidbox_attributes = input
    /\ pc = "validate"
    /\ cursor = 1
    /\ typed_attributes = << >>
    /\ attr_errors = << >>
    /\ raw_forest = EmptyMap
    /\ raw_errors = << >>
    /\ path_forest = EmptyMap
    /\ sep_forest = EmptyMap
    /\ sep_errors = << >>
    /\ inv_forest = EmptyMap
    /\ inv_errors = << >>
    /\ exts = << >>
    /\ profiles = << >>
    /\ sp_expression = << >>
    /\ sp_converted = None

RECURSIVE validate_all(_)
\* the validation loop of main over the attributes read
validate_all(attributes) ==
    IF attributes = << >> THEN [attrs |-> << >>, errors |-> << >>]
    ELSE LET Both(r, rest) == [attrs |-> r.attr \o rest.attrs,
                               errors |-> r.errors \o rest.errors]
         IN  Both(typed_build_from(Head(attributes)), validate_all(Tail(attributes)))

RECURSIVE raw_Forest_build_from_attributes(_, _, _)
\* Forest::build_from_attributes, from the forest and errors built so far
raw_Forest_build_from_attributes(forest, errors, attrs) ==
    IF attrs = << >> THEN [forest |-> forest, errors |-> errors]
    ELSE LET Rest(r) == raw_Forest_build_from_attributes(r.forest, errors \o r.error,
                                                         Tail(attrs))
         IN  Rest(raw_Forest_insert(forest, Head(attrs)))

\* one run of main on the attributes read, with the hasher this run is seeded
\* with: the SDs printed and the diagnostics of every stage
main(attributes, hasher) ==
    LET Emitted(typed, raw, separated, inverted) ==
            [exts |-> collect_extensions(inverted.forest),
             profiles |-> make_profiles(inverted.forest),
             errors |-> << typed.errors, raw.errors, separated.errors, inverted.errors >>]
        FromSeparated(typed, raw, separated) ==
            Emitted(typed, raw, separated, inv_Forest_build_from(separated.forest, hasher))
        FromRaw(typed, raw) ==
            FromSeparated(typed, raw, sep_Forest_build_from(path_Forest_build_from(raw.forest)))
        FromTyped(typed) ==
            FromRaw(typed, raw_Forest_build_from_attributes(EmptyMap, << >>, typed.attrs))
    IN  FromTyped(validate_all(attributes))

-----------------------------------------------------------------------------
(* Inputs                                                                  *)

MaxAttrs == 3
MaxSeq == 3

Ref(id, resourceType) == [id |-> id, resourceType |-> resourceType]

\* an aidbox::Attribute with every optional field absent
RawBase ==
    [id |-> "", path |-> << >>, resource |-> Ref("Patient", "Entity"),
     type |-> None, extensionUrl |-> None, schema |-> None, isRequired |-> None,
     isCollection |-> None, isOpen |-> None, union |-> None, isUnique |-> None,
     enum |-> None, order |-> None, isSummary |-> None, isModifier |-> None,
     valueSet |-> None, refers |-> None]

Slot(id, rt, path, shapes) == [id |-> id, rt |-> rt, path |-> path, shapes |-> shapes]

Placed(slot) ==
    { [s EXCEPT !.id = slot.id, !.path = slot.path, !.resource.id = slot.rt] :
        s \in slot.shapes }

RECURSIVE InputsOf(_, _)
\* the attribute lists that hold at most one attribute per slot, at most max in
\* all, in slot order
InputsOf(slots, max) ==
    IF slots = << >> THEN { << >> }
    ELSE InputsOf(Tail(slots), max)
         \cup (IF max > 0
               THEN { << h >> \o t : h \in Placed(Head(slots)),
                                     t \in InputsOf(Tail(slots), max - 1) }
               ELSE {})

Urls == { "http://x/i", "http://x/o" }

\* concrete string / complex, each normal or an extension
ExtShapes ==
    { [RawBase EXCEPT !.type = t, !.extensionUrl = u] :
        t \in { None, Some(Ref("string", "Entity")) },
        u \in { None } \cup { Some(x) : x \in Urls } }

ExtSlots ==
    << Slot("a1", "Patient", << >>, ExtShapes),
       Slot("a2", "Patient", << "inner" >>, ExtShapes),
       Slot("a3", "Patient", << "outer" >>, ExtShapes),
       Slot("a4", "Patient", << "outer", "Coding" >>, ExtShapes),
       Slot("a5", "Patient", << "outer", "inner" >>, ExtShapes),
       Slot("a6", "Patient", << "outer", "inner", "Coding" >>, ExtShapes),
       Slot("a7", "Observation", << "outer" >>, ExtShapes) >>

\* tree shapes: concrete and complex attributes, normal or extension, on the
\* paths of two resource types
Init == \E input \in InputsOf(ExtSlots, MaxAttrs) \ { << >> } : Start(input)

Spec == Init /\ [][Next]_vars

\* isRequired / isCollection: neither, one or the other
Flags == { << None, None >>, << Some(TRUE), None >>, << None, Some(TRUE) >> }

\* children of a polymorphic (or other) parent: concrete targets with and without
\* a value set, normal or extension, and two non-concrete children
ChildShapes ==
    { [RawBase EXCEPT !.type = Some(Ref(tv[1], "Entity")), !.valueSet = tv[2],
                      !.extensionUrl = u, !.isRequired = f[1], !.isCollection = f[2]] :
        tv \in { << "Coding", Some(Ref("VS1", "ValueSet")) >>,
                 << "Coding", None >>, << "string", None >> },
        u \in { None, Some("http://x/i") },
        f \in Flags }
    \cup { RawBase,
           [RawBase EXCEPT !.union = Some(<< Ref("string", "Entity") >>)] }

Unions ==
    { << Ref("Coding", "Entity") >>,
      << Ref("Coding", "Entity"), Ref("string", "Entity") >> }

ParentShapes ==
    { [RawBase EXCEPT !.union = Some(un), !.extensionUrl = u,
                      !.isRequired = f, !.isCollection = f] :
        un \in Unions, u \in { None, Some("http://x/o") }, f \in { None, Some(TRUE) } }
    \cup { [RawBase EXCEPT !.type = t, !.extensionUrl = u] :
             t \in { None, Some(Ref("string", "Entity")) },
             u \in { None, Some("http://x/o") } }

PolySlots ==
    << Slot("p1", "Patient", << "outer" >>, ParentShapes),
       Slot("p2", "Patient", << "outer", "Coding" >>, ChildShapes),
       Slot("p3", "Patient", << "outer", "inner" >>, ChildShapes) >>

\* a parent of any kind with up to two children
InitPoly == \E input \in InputsOf(PolySlots, Len(PolySlots)) \ { << >> } : Start(input)

SpecPoly == InitPoly /\ [][Next]_vars

RootShapes ==
    { [RawBase EXCEPT !.type = Some(Ref(tv[1], "Entity")), !.valueSet = tv[2],
                      !.refers = tv[3], !.extensionUrl = u,
                      !.isRequired = f[1], !.isCollection = f[2]] :
        tv \in { << "Coding", Some(Ref("VS1", "ValueSet")), None >>,
                 << "string", None, None >>,
                 << "Reference", None, Some(<< "Patient" >>) >> },
        u \in { None, Some("http://x/o") },
        f \in Flags }
    \cup { [RawBase EXCEPT !.union = Some(un), !.extensionUrl = u,
                           !.isRequired = f[1], !.isCollection = f[2]] :
             un \in Unions, u \in { None, Some("http://x/o") }, f \in Flags }
    \cup { [RawBase EXCEPT !.isOpen = o, !.extensionUrl = u,
                           !.isRequired = f[1], !.isCollection = f[2]] :
             o \in { None, Some(TRUE) }, u \in { None, Some("http://x/o") }, f \in Flags }

RootSlots ==
    << Slot("r1", "Patient", << >>, RootShapes),
       Slot("r2", "Patient", << "Coding" >>, ChildShapes),
       Slot("r3", "Patient", << "inner" >>, ChildShapes) >>

\* a root attribute of any kind with up to two children
InitRoot == \E input \in InputsOf(RootSlots, Len(RootSlots)) \ { << >> } : Start(input)

SpecRoot == InitRoot /\ [][Next]_vars

AttrIds == << "a1", "a2", "a3", "a4", "a5" >>

ForestAttrs ==
    { [RawBase EXCEPT !.path = rp[2], !.resource.id = rp[1], !.type = t] :
        rp \in { << "Patient", << >> >>, << "Patient", << "inner" >> >>,
                 << "Patient", << "outer" >> >>, << "Patient", << "outer", "inner" >> >>,
                 << "Observation", << "outer" >> >> },
        t \in { None, Some(Ref("string", "Entity")) } }

\* attribute lists in any order, paths repeated or not; the id is the position
InitForest ==
    \E n \in 1..MaxSeq : \E f \in [1..n -> ForestAttrs] :
        Start([i \in 1..n |-> [f[i] EXCEPT !.id = AttrIds[i]]])

SpecForest == InitForest /\ [][Next]_vars

OptBool == { None, Some(TRUE), Some(FALSE) }

\* the five unsupported fields, present with any value or absent, in each of the
\* four (type, union) branches
UnsupportedShapes ==
    { [RawBase EXCEPT !.type = t, !.union = un, !.schema = sc, !.isSummary = su,
                      !.isModifier = mo, !.isUnique = uq, !.order = od] :
        t \in { None, Some(Ref("string", "Entity")) },
        un \in { None, Some(<< Ref("Coding", "Entity") >>) },
        sc \in { None, Some("schema") },
        su \in OptBool, mo \in OptBool, uq \in OptBool,
        od \in { None, Some("order") } }

TypeRefs ==
    { Ref(id, "Entity") : id \in { "string", "Coding", "Reference", "date" } }
    \cup { Ref("string", "Attribute"), Ref("string", "ValueSet") }

\* the fields the three readers look at
FieldShapes ==
    { [RawBase EXCEPT !.resource.resourceType = rk, !.type = t, !.union = un,
                      !.valueSet = vs, !.refers = rf, !.enum = en, !.isOpen = op,
                      !.isRequired = f[1], !.isCollection = f[2],
                      !.extensionUrl = u] :
        rk \in { "Entity", "Attribute" },
        t \in { None } \cup { Some(r) : r \in TypeRefs },
        un \in { None, Some(<< >>),
                 Some(<< Ref("Coding", "Attribute"), Ref("string", "Entity") >>),
                 Some(<< Ref("string", "Entity"), Ref("Coding", "ValueSet") >>),
                 Some(<< Ref("Coding", "Attribute") >>) },
        vs \in { None, Some(Ref("VS1", "ValueSet")), Some(Ref("VS1", "Entity")) },
        rf \in { None, Some(<< "Patient" >>) },
        en \in { None, Some("enum") },
        op \in { None, Some(TRUE), Some(FALSE) },
        f \in Flags,
        u \in { None, Some("http://x/ext1") } }

ValSlots ==
    << Slot("a1", "Patient", << "name", "given" >>, UnsupportedShapes \cup FieldShapes) >>

\* one attribute, over the fields the validator reads
InitVal == \E input \in InputsOf(ValSlots, Len(ValSlots)) \ { << >> } : Start(input)

SpecVal == InitVal /\ [][Next]_vars

EmitFlags == Flags \cup { << Some(TRUE), Some(TRUE) >> }

\* an attribute at [myExt]: concrete (plain, with a value set, with refers),
\* polymorphic or complex, normal or an extension, with every flag combination
EmitTopShapes ==
    { [RawBase EXCEPT !.type = Some(Ref(tv[1], "Entity")), !.valueSet = tv[2],
                      !.refers = tv[3], !.extensionUrl = u,
                      !.isRequired = f[1], !.isCollection = f[2]] :
        tv \in { << "string", None, None >>,
                 << "Coding", Some(Ref("VS1", "ValueSet")), None >>,
                 << "Reference", None, Some(<< "Patient" >>) >> },
        u \in { None, Some("http://x/ext1") },
        f \in EmitFlags }
    \cup { [RawBase EXCEPT !.union = Some(un), !.extensionUrl = u,
                           !.isRequired = f[1], !.isCollection = f[2]] :
             un \in Unions, u \in { None, Some("http://x/ext1") }, f \in EmitFlags }
    \cup { [RawBase EXCEPT !.extensionUrl = u,
                           !.isRequired = f[1], !.isCollection = f[2]] :
             u \in { None, Some("http://x/ext1") }, f \in EmitFlags }

\* a concrete child, normal or an extension
EmitChildShapes ==
    { [RawBase EXCEPT !.type = Some(Ref(tv[1], "Entity")), !.valueSet = tv[2],
                      !.refers = tv[3], !.extensionUrl = u,
                      !.isRequired = f, !.isCollection = f] :
        tv \in { << "string", None, None >>,
                 << "Coding", None, None >>,
                 << "Coding", Some(Ref("VS1", "ValueSet")), None >>,
                 << "Reference", None, Some(<< "Patient" >>) >> },
        u \in { None, Some("http://x/i") },
        f \in { None, Some(TRUE) } }

EmitSlots ==
    << Slot("e1", "Patient", << "myExt" >>, EmitTopShapes),
       Slot("e2", "Patient", << "myExt", "Coding" >>, EmitChildShapes),
       Slot("e3", "Patient", << "myExt", "given" >>,
            { s \in EmitChildShapes : s.isRequired = None /\ s.refers = None }),
       Slot("e4", "Observation", << "name" >>,
            { s \in EmitChildShapes :
                /\ s.isRequired = None /\ s.refers = None /\ s.valueSet = None
                /\ s.type = Some(Ref("string", "Entity")) }) >>

\* what the emitter reads: flags, targets, value sets and refers of simple
\* extensions, at the root of a resource type and under a property of it
InitEmit == \E input \in InputsOf(EmitSlots, Len(EmitSlots)) \ { << >> } : Start(input)

SpecEmit == InitEmit /\ [][Next]_vars

MaxEntries == 3

\* one entry of the walk: whether the walk reached it, the extension of its
\* path, whether it can be opened, and the attribute it decodes to, if any
Entry(walked, extension, opened, attribute) ==
    [walked |-> walked, extension |-> extension, opened |-> opened,
     attribute |-> attribute]

\* attributes that are clean alone and that fail validation, insertion,
\* separation or inversion alone or together
DriverAttrs ==
    { [RawBase EXCEPT !.id = "d1", !.path = << "name" >>,
                      !.type = Some(Ref("string", "Entity"))],
      [RawBase EXCEPT !.id = "d2", !.path = << "name" >>,
                      !.type = Some(Ref("string", "Entity")),
                      !.union = Some(<< Ref("Coding", "Entity") >>)],
      [RawBase EXCEPT !.id = "d3", !.path = << "given" >>,
                      !.type = Some(Ref("string", "Entity")),
                      !.extensionUrl = Some("http://x/i")],
      [RawBase EXCEPT !.id = "d4", !.path = << "name" >>,
                      !.type = Some(Ref("string", "Entity")),
                      !.extensionUrl = Some("http://x/i")],
      [RawBase EXCEPT !.id = "d5", !.path = << "name", "given" >>,
                      !.type = Some(Ref("string", "Entity"))] }

WalkEntries ==
    { Entry(FALSE, "json", FALSE, None),
      Entry(TRUE, "txt", TRUE, None),
      Entry(TRUE, "json", FALSE, None),
      Entry(TRUE, "json", TRUE, None),
      Entry(TRUE, "yaml", TRUE, None),
      Entry(TRUE, "yml", TRUE, Some(CHOOSE a \in DriverAttrs : a.id = "d1")) }
    \cup { Entry(TRUE, "json", TRUE, Some(a)) : a \in DriverAttrs }

\* main before the walk: up to MaxEntries directory entries, readable or not
InitDriver ==
    \E n \in 1..MaxEntries : \E entries \in [1..n -> WalkEntries] :
        /\ walker = entries
        /\ read_errors = << >>
        /\ had_errors = FALSE
        /\ aidbox_attributes = << >>
        /\ pc = "read"
        /\ cursor = 1
        /\ typed_attributes = << >>
        /\ attr_errors = << >>
        /\ raw_forest = EmptyMap
        /\ raw_errors = << >>
        /\ path_forest = EmptyMap
        /\ sep_forest = EmptyMap
        /\ sep_errors = << >>
        /\ inv_forest = EmptyMap
        /\ inv_errors = << >>
        /\ exts = << >>
        /\ profiles = << >>
        /\ sp_expression = << >>
        /\ sp_converted = None

SpecDriver == InitDriver /\ [][NextFromRead]_vars

MaxItems == 3

\* the attributes of Patient: at most one on each of three paths
SearchAttrs ==
    LET At(path, shapes) == { << >> } \cup { << [s EXCEPT !.path = path] >> : s \in shapes }
        plain == [RawBase EXCEPT !.id = "s"]
        string == [plain EXCEPT !.type = Some(Ref("string", "Entity"))]
    IN  { a \o b \o c :
            a \in At(<< "myExt" >>,
                     { string,
                       [string EXCEPT !.extensionUrl = Some("http://x/ext1")],
                       [plain EXCEPT !.extensionUrl = Some("http://x/o'k")],
                       [string EXCEPT !.extensionUrl = Some("http://x/ext1"),
                                      !.enum = Some("enum")] }),
            b \in At(<< "name" >>, { plain, [string EXCEPT !.enum = Some("enum")] }),
            c \in At(<< "name", "given" >>,
                     { string, [string EXCEPT !.extensionUrl = Some("http://x/i")] }) }

\* filters over up to two keys, with every kind of value
Filters ==
    LET With(k, values) == { EmptyMap } \cup { MapPut(EmptyMap, k, v) : v \in values }
    IN  { [k \in DOMAIN a \cup DOMAIN u |-> IF k \in DOMAIN a THEN a[k] ELSE u[k]] :
            a \in With("active", { Null, Bool(TRUE), Bool(FALSE), Number(7), Array, Object }),
            u \in With("use", { Null, String("official"), String("it's"), String("a\\b"),
                                String("\\'"), Object }) }

PathItems ==
    { Path("name"), Path("given"), Path("myExt"), Index(0),
      Filter(MapPut(EmptyMap, "use", String("official"))),
      Filter(MapPut(EmptyMap, "use", Array)) }

RECURSIVE SeqsUpTo(_, _)
\* the sequences over S of length at most n
SeqsUpTo(S, n) ==
    IF n = 0 THEN { << >> }
    ELSE LET shorter == SeqsUpTo(S, n - 1)
         IN  shorter \cup { Append(s, x) : s \in shorter, x \in S }

\* expressions of up to MaxItems items, and every filter after one path item
SearchExpressions ==
    SeqsUpTo(PathItems, MaxItems)
    \cup { << Path("name"), Filter(f) >> : f \in Filters }
    \cup { << Path("name"), Filter(f), Path("given") >> : f \in Filters }

\* convert_path about to be called
InitSearch ==
    \E attributes \in SearchAttrs : \E expr \in SearchExpressions :
        /\ sp_expression = expr
        /\ sp_converted = None
        /\ aidbox_attributes = attributes
        /\ pc = "convert"
        /\ walker = << >>
        /\ read_errors = << >>
        /\ had_errors = FALSE
        /\ cursor = 1
        /\ typed_attributes = << >>
        /\ attr_errors = << >>
        /\ raw_forest = EmptyMap
        /\ raw_errors = << >>
        /\ path_forest = EmptyMap
        /\ sep_forest = EmptyMap
        /\ sep_errors = << >>
        /\ inv_forest = EmptyMap
        /\ inv_errors = << >>
        /\ exts = << >>
        /\ profiles = << >>

SpecSearch == InitSearch /\ [][ConvertPath]_vars

\* the attribute at [outer]: polymorphic, concrete or complex, normal or an extension
SepTopShapes ==
    { [RawBase EXCEPT !.type = tu[1], !.union = tu[2], !.extensionUrl = u] :
        tu \in { << None, Some(<< Ref("Coding", "Entity") >>) >>,
                 << Some(Ref("string", "Entity")), None >>,
                 << None, None >> },
        u \in { None, Some("http://x/o") } }

\* its child at [outer, inner]: concrete with either flag, polymorphic or complex
SepChildShapes ==
    { [RawBase EXCEPT !.type = Some(Ref("string", "Entity")), !.extensionUrl = u,
                      !.isRequired = f[1], !.isCollection = f[2]] :
        u \in { None, Some("http://x/i") }, f \in Flags }
    \cup { [RawBase EXCEPT !.union = Some(<< Ref("string", "Entity") >>)],
           RawBase,
           [RawBase EXCEPT !.extensionUrl = Some("http://x/i")] }

\* a child or grandchild named Coding
SepLeafShapes ==
    { [RawBase EXCEPT !.type = Some(Ref("Coding", "Entity"))],
      [RawBase EXCEPT !.type = Some(Ref("Coding", "Entity")),
                      !.extensionUrl = Some("http://x/ext1")],
      [RawBase EXCEPT !.type = Some(Ref("Coding", "Entity")),
                      !.valueSet = Some(Ref("VS1", "ValueSet"))],
      [RawBase EXCEPT !.type = Some(Ref("Reference", "Entity")),
                      !.refers = Some(<< "Patient" >>),
                      !.extensionUrl = Some("http://x/ext1"),
                      !.isRequired = Some(TRUE)],
      [RawBase EXCEPT !.union = Some(<< Ref("Coding", "Entity") >>)] }

SepSlots ==
    << Slot("s1", "Patient", << "outer" >>, SepTopShapes),
       Slot("s2", "Patient", << "outer", "inner" >>, SepChildShapes),
       Slot("s3", "Patient", << "outer", "inner", "Coding" >>, SepLeafShapes),
       Slot("s4", "Patient", << "outer", "Coding" >>, SepLeafShapes) >>

\* what the separator reads: a parent of any kind with two children of any kind,
\* one of them with a child of its own, any of the four attributes missing
InitSep == \E input \in InputsOf(SepSlots, Len(SepSlots)) \ { << >> } : Start(input)

SpecSep == InitSep /\ [][Next]_vars

\* a complex attribute at [outer], an extension with any flags or a normal node
NestedTopShapes ==
    { [RawBase EXCEPT !.extensionUrl = Some("http://x/o"),
                      !.isRequired = f[1], !.isCollection = f[2]] : f \in EmitFlags }
    \cup { RawBase }

\* an extension below it: a string, a Coding with a value set or a complex one,
\* with any flags; and a normal string
NestedChildShapes ==
    { [RawBase EXCEPT !.type = tv[1], !.valueSet = tv[2],
                      !.extensionUrl = Some("http://x/i"),
                      !.isRequired = f[1], !.isCollection = f[2]] :
        tv \in { << Some(Ref("string", "Entity")), None >>,
                 << Some(Ref("Coding", "Entity")), Some(Ref("VS1", "ValueSet")) >>,
                 << None, None >> },
        f \in EmitFlags }
    \cup { [RawBase EXCEPT !.type = Some(Ref("string", "Entity"))] }

NestedSlots ==
    << Slot("n1", "Patient", << "outer" >>, NestedTopShapes),
       Slot("n2", "Patient", << "outer", "inner" >>, NestedChildShapes),
       Slot("n3", "Patient", << "outer", "inner", "Coding" >>,
            { [s EXCEPT !.extensionUrl = Some("http://x/ext1")] :
                s \in { c \in NestedChildShapes : c.extensionUrl # None /\ c.valueSet = None } }),
       Slot("n4", "Patient", << "outer", "Coding" >>,
            { s \in NestedChildShapes : s.isRequired = s.isCollection }) >>

\* what emit_nested reads: the kind and the flags of the extensions inside a
\* complex extension, down to two levels
InitNested == \E input \in InputsOf(NestedSlots, Len(NestedSlots)) \ { << >> } : Start(input)

SpecNested == InitNested /\ [][Next]_vars

-----------------------------------------------------------------------------
(* Properties                                                              *)

Done == pc = "done"

\* S6: a complex extension at [outer] with a concrete string extension inside
NestedExample ==
    << [RawBase EXCEPT !.id = "a3", !.path = << "outer" >>,
                       !.extensionUrl = Some("http://x/o")],
       [RawBase EXCEPT !.id = "a5", !.path = << "outer", "inner" >>,
                       !.type = Some(Ref("string", "Entity")),
                       !.extensionUrl = Some("http://x/i")] >>

RECURSIVE NestedExtensions(_, _)
\* the extensions of an inverted extension map and the ones nested inside them,
\* each named by the resource type, properties and URLs that lead to it
NestedExtensions(extension, at) ==
    UNION { { Append(at, url) }
            \cup (IF extension[url].kind = "Complex"
                  THEN NestedExtensions(extension[url].extension, Append(at, url))
                  ELSE {}) : url \in DOMAIN extension }

RECURSIVE ExtensionsUnder(_, _)
ExtensionsUnder(node, at) ==
    IF node.kind \in { "Complex", "Inferred" }
    THEN NestedExtensions(node.extension, at)
         \cup UNION { ExtensionsUnder(node.children[name], Append(at, name)) :
                        name \in DOMAIN node.children }
    ELSE {}

\* every extension of the inverted forest, at any depth
AllExtensions ==
    UNION { ExtensionsUnder(inv_forest[rt].root, << rt >>) : rt \in DOMAIN inv_forest }

RECURSIVE OwnExtensions(_, _)
\* the entries of the extension maps of the complex and inferred normal nodes:
\* << parent (resource type and properties), url >>
OwnExtensions(node, at) ==
    IF node.kind \in { "Complex", "Inferred" }
    THEN { << at, url >> : url \in DOMAIN node.extension }
         \cup UNION { OwnExtensions(node.children[name], Append(at, name)) :
                        name \in DOMAIN node.children }
    ELSE {}

ParentExtensions ==
    UNION { OwnExtensions(inv_forest[rt].root, << rt >>) : rt \in DOMAIN inv_forest }

ExtSdFor(e) ==
    { i \in 1..Len(exts) :
        /\ exts[i].url = e[2]
        /\ exts[i].context = Some(<< [type |-> "element", expression |-> JoinDot(e[1])] >>) }

C2_DistinctSdUrls ==
    Done => \A i, j \in 1..Len(exts) : i # j => exts[i].url # exts[j].url

\* one URL under the Patient root and under the Observation root, or under two
\* parents of Patient, has produced two SDs
C2_Witness ==
    /\ Done
    /\ \E i, j \in 1..Len(exts) :
          /\ i # j
          /\ exts[i].url = exts[j].url
          /\ exts[i].context # exts[j].context
    /\ attr_errors = << >> /\ raw_errors = << >>
    /\ sep_errors = << >> /\ inv_errors = << >>

\* S1: one concrete string attribute of Patient at [name, given]
StringLeafExample ==
    << [RawBase EXCEPT !.id = "a1", !.path = << "name", "given" >>,
                       !.type = Some(Ref("string", "Entity"))] >>

NoDiagnostics ==
    /\ attr_errors = << >> /\ raw_errors = << >>
    /\ sep_errors = << >> /\ inv_errors = << >>

Separated == pc \in { "invert", "emit", "done" }

\* the resource types whose root attribute carries an extension URL
ExtensionRoots ==
    { rt \in DOMAIN path_forest : path_forest[rt].root.variant = "Extension" }

\* C4: when the root of a trie is an Extension variant, the diagnostics of the
\* extension separator contain RootIsExtension with that attribute's id.
C4_RootIsExtensionReported ==
    Separated =>
        \A rt \in ExtensionRoots :
            \E i \in 1..Len(sep_errors) :
                /\ sep_errors[i].type = "RootIsExtension"
                /\ sep_errors[i].attr_id = path_forest[rt].root.id

\* a root attribute with an extension URL has been separated and the separator
\* returned no diagnostic at all
C4_Witness ==
    /\ Separated
    /\ ExtensionRoots # {}
    /\ sep_errors = << >>

RECURSIVE PolymorphicParents(_)
\* the polymorphic nodes and polymorphic extensions of a separated subtree
PolymorphicParents(node) ==
    IF node.kind = "Polymorphic" THEN { node }
    ELSE IF node.kind = "Concrete" THEN {}
    ELSE (IF node.variant = "Normal"
          THEN UNION { PolymorphicParents(node.children[name]) :
                         name \in DOMAIN node.children }
          ELSE {})
         \cup UNION { PolymorphicParents(node.extension[name]) :
                        name \in DOMAIN node.extension }

AllPolymorphicParents ==
    UNION { PolymorphicParents(sep_forest[rt].root) : rt \in DOMAIN sep_forest }

DeclaredTargets(parent) == { parent.targets[k] : k \in 1..Len(parent.targets) }

UndeclaredTargetReported(parent) ==
    \E i \in 1..Len(inv_errors) :
        /\ inv_errors[i].type = "PolymorphicUndeclaredTarget"
        /\ inv_errors[i].attr_id = parent.id

\* C5: after the whole pipeline, every polymorphic leaf kept under a normal
\* polymorphic node or a polymorphic extension has a target among the parent's
\* declared targets, or a PolymorphicUndeclaredTarget for that parent is reported.
C5_PolymorphicClosure ==
    Done =>
        \A parent \in AllPolymorphicParents :
            \A name \in DOMAIN parent.children :
                \/ parent.children[name].target \in DeclaredTargets(parent)
                \/ UndeclaredTargetReported(parent)

\* a normal polymorphic node keeps a leaf of an undeclared type and the pipeline
\* ends without any inverter diagnostic
C5_Witness ==
    /\ Done
    /\ inv_errors = << >>
    /\ \E parent \in AllPolymorphicParents :
          /\ parent.variant = "Normal"
          /\ \E name \in DOMAIN parent.children :
                parent.children[name].target \notin DeclaredTargets(parent)

\* the same under a polymorphic extension: the leaf's property name is declared,
\* its type is not
C5_WitnessExtension ==
    /\ Done
    /\ inv_errors = << >>
    /\ \E parent \in AllPolymorphicParents :
          /\ parent.variant = "Extension"
          /\ \E name \in DOMAIN parent.children :
                parent.children[name].target \notin DeclaredTargets(parent)

RECURSIVE AttributeAt(_, _)
\* the attribute slot of the raw node reached from `node` along `path`
AttributeAt(node, path) ==
    IF path = << >> THEN node.attribute
    ELSE IF Head(path) \in DOMAIN node.children
    THEN AttributeAt(node.children[Head(path)], Tail(path))
    ELSE None

SlotOf(forest, rt, path) ==
    IF rt \in DOMAIN forest THEN AttributeAt(forest[rt].root, path) ELSE None

\* how many typed attributes build_from_attributes has inserted so far
Inserted ==
    IF pc = "validate" THEN 0
    ELSE IF pc = "raw" THEN cursor - 1
    ELSE Len(typed_attributes)

SameSlot(a, b) == a.resource_type = b.resource_type /\ a.path = b.path

\* the attributes among the first n that come after one of the same slot
LaterDuplicates(n) ==
    SelectSeq([i \in 1..n |-> i],
              LAMBDA i : \E j \in 1..(i - 1) :
                            SameSlot(typed_attributes[j], typed_attributes[i]))

FirstOf(rt, path, n) ==
    LET at == { i \in 1..n : /\ typed_attributes[i].resource_type = rt
                             /\ typed_attributes[i].path = path }
    IN  IF at = {} THEN None
        ELSE Some(typed_attributes[CHOOSE i \in at : \A j \in at : i <= j])

Dotted(path) ==
    CASE path = << >> -> ""
      [] path = << "inner" >> -> "inner"
      [] path = << "outer" >> -> "outer"
      [] path = << "outer", "inner" >> -> "outer.inner"

FirstWins ==
    /\ \A rt \in { "Patient", "Observation" } :
          \A path \in { a.path : a \in ForestAttrs } :
              SlotOf(raw_forest, rt, path) = FirstOf(rt, path, Inserted)
    /\ raw_errors =
          [k \in 1..Len(LaterDuplicates(Inserted)) |->
              [type |-> "AlreadyExists",
               path |-> Dotted(typed_attributes[LaterDuplicates(Inserted)[k]].path)]]
    /\ Len(raw_errors) =
          Inserted - Cardinality({ << typed_attributes[i].resource_type,
                                      typed_attributes[i].path >> : i \in 1..Inserted })

DuplicateInsertKeepsForest ==
    (/\ pc = "raw"
     /\ cursor <= Len(typed_attributes)
     /\ cursor' = cursor + 1
     /\ \E j \in 1..(cursor - 1) :
           SameSlot(typed_attributes[j], typed_attributes[cursor]))
    => /\ raw_forest' = raw_forest
       /\ raw_errors' = Append(raw_errors,
                               [type |-> "AlreadyExists",
                                path |-> Dotted(typed_attributes[cursor].path)])

\* C6: Forest::build_from_attributes is first-wins over any attribute sequence:
\* every (resource type, path) slot holds the first attribute inserted for it,
\* each later attribute of the same slot yields exactly one AlreadyExists with the
\* dot-joined path and leaves the forest unchanged, and the number of
\* AlreadyExists errors is the number of attributes minus the number of distinct
\* (resource type, path) pairs.
C6_FirstWins == [](FirstWins) /\ [][DuplicateInsertKeepsForest]_vars

\* three attributes, two of them after an earlier one of the same slot, all inserted
C6_Witness ==
    /\ pc = "separate"
    /\ Len(typed_attributes) = 3
    /\ Len(raw_errors) = 2
    /\ \E rt \in DOMAIN raw_forest :
          SlotOf(raw_forest, rt, << "outer", "inner" >>) = Some(typed_attributes[1])
    /\ typed_attributes[2] # typed_attributes[1]

\* how many raw attributes Attribute::build_from has read so far
Validated == IF pc = "validate" THEN cursor - 1 ELSE Len(aidbox_attributes)

ErrorCount(id, type) ==
    Cardinality({ i \in 1..Len(attr_errors) :
                    attr_errors[i].id = id /\ attr_errors[i].source.type = type })

TypedOf(id) == SelectSeq(typed_attributes, LAMBDA t : t.id = id)

RECURSIVE HoldsAttribute(_, _)
\* some slot of the raw subtree holds an attribute with this id
HoldsAttribute(node, id) ==
    \/ (IsSome(node.attribute) /\ Unwrap(node.attribute).id = id)
    \/ \E name \in DOMAIN node.children : HoldsAttribute(node.children[name], id)

\* C7: an attribute with both `type` and `union` yields InvalidKind and no typed
\* attribute, whatever its other fields, and so no node and no trie in the raw
\* forest.
C7_InvalidKind ==
    \A i \in 1..Validated :
        LET a == aidbox_attributes[i]
        IN  (IsSome(a.type) /\ IsSome(a.union)) =>
                /\ ErrorCount(a.id, "InvalidKind") = 1
                /\ TypedOf(a.id) = << >>
                /\ \A rt \in DOMAIN raw_forest : ~HoldsAttribute(raw_forest[rt].root, a.id)
                /\ Len(aidbox_attributes) = 1 => raw_forest = EmptyMap

\* an attribute with type, union and other fields set went through the pipeline
C7_Witness ==
    /\ Done
    /\ IsSome(aidbox_attributes[1].type) /\ IsSome(aidbox_attributes[1].union)
    /\ IsSome(aidbox_attributes[1].valueSet) /\ IsSome(aidbox_attributes[1].extensionUrl)
    /\ ErrorCount("a1", "InvalidKind") = 1
    /\ raw_forest = EmptyMap

Unsupported ==
    { << "schema", "SchemaPresent" >>, << "isSummary", "SummaryPresent" >>,
      << "isModifier", "ModifierPresent" >>, << "isUnique", "UniquePresent" >>,
      << "order", "OrderPresent" >> }

WithoutUnsupported(a) ==
    [a EXCEPT !.schema = None, !.isSummary = None, !.isModifier = None,
              !.isUnique = None, !.order = None]

\* C8: Attribute::build_from reports exactly one SchemaPresent, SummaryPresent,
\* ModifierPresent, UniquePresent, OrderPresent for each of schema, isSummary,
\* isModifier, isUnique, order that is present, whatever its value, and none for
\* an absent one, in every kind branch; the typed attribute and the remaining
\* diagnostics are those of the same attribute without the five fields.
C8_UnsupportedReported ==
    \A i \in 1..Validated :
        LET a == aidbox_attributes[i]
        IN  /\ \A u \in Unsupported :
                  ErrorCount(a.id, u[2]) = (IF a[u[1]] # None THEN 1 ELSE 0)
            /\ TypedOf(a.id) = typed_build_from(WithoutUnsupported(a)).attr
            /\ SelectSeq(attr_errors,
                         LAMBDA e : e.id = a.id
                                    /\ e.source.type \notin { u[2] : u \in Unsupported })
                  = typed_build_from(WithoutUnsupported(a)).errors

\* isUnique = false and order present on an attribute with both type and union:
\* both reported next to InvalidKind
C8_Witness ==
    /\ Validated = 1
    /\ aidbox_attributes[1].isUnique = Some(FALSE)
    /\ IsSome(aidbox_attributes[1].order)
    /\ aidbox_attributes[1].schema = None
    /\ ErrorCount("a1", "InvalidKind") = 1
    /\ ErrorCount("a1", "UniquePresent") = 1
    /\ ErrorCount("a1", "OrderPresent") = 1
    /\ ErrorCount("a1", "SchemaPresent") = 0

\* the Normal node with the fields of an Extension node, its URL left out
NormalCounterpart(extension) ==
    [f \in DOMAIN extension \ { "fce" } |->
        IF f = "variant" THEN "Normal" ELSE extension[f]]

\* the fields a separated root shares with the lifted root it comes from
CarriedFields(root, extension) ==
    (DOMAIN root \cap DOMAIN extension) \ { "variant", "children" }

\* C9: after the extension separator no trie root is an Extension variant; a
\* root attribute with an extension URL becomes the Normal node of the same kind
\* with the same id, array, required, resource type, target or targets,
\* value_set, refers, open and children, without the URL, and is separated as
\* that normal root is.
C9_RootConvertedToNormal ==
    Separated =>
        /\ DOMAIN sep_forest = DOMAIN path_forest
        /\ \A rt \in DOMAIN sep_forest :
              /\ sep_forest[rt].root.variant = "Normal"
              /\ "fce" \notin DOMAIN sep_forest[rt].root
        /\ \A rt \in ExtensionRoots :
              LET extension == path_forest[rt].root
                  root == sep_forest[rt].root
                  as_normal == sep_NormalNode_build_from(NormalCounterpart(extension))
              IN  /\ root.kind = extension.kind
                  /\ \A f \in CarriedFields(root, extension) : root[f] = extension[f]
                  /\ { "id", "array", "required", "resource_type" }
                        \subseteq CarriedFields(root, extension)
                  /\ root = as_normal.node
                  /\ DOMAIN path_forest = { rt } => sep_errors = as_normal.errors

\* a polymorphic root extension with a kept leaf and a rejected child, separated
C9_Witness ==
    /\ Separated
    /\ "Patient" \in ExtensionRoots
    /\ path_forest["Patient"].root.kind = "Polymorphic"
    /\ path_forest["Patient"].root.required
    /\ DOMAIN path_forest["Patient"].root.children = { "Coding", "inner" }
    /\ DOMAIN sep_forest["Patient"].root.children = { "Coding" }
    /\ sep_errors # << >>

\* a complex root extension whose extension child is kept in the extension map
C9_WitnessComplex ==
    /\ Separated
    /\ "Patient" \in ExtensionRoots
    /\ path_forest["Patient"].root.kind = "Complex"
    /\ path_forest["Patient"].root.open
    /\ DOMAIN sep_forest["Patient"].root.extension = { "inner" }
    /\ DOMAIN sep_forest["Patient"].root.children = { "Coding" }

\* the inverter has run
Inverted == pc \in { "emit", "done" }

HasExtensionMap(node) ==
    \/ node.variant = "Normal" /\ node.kind \in { "Complex", "Inferred" }
    \/ node.variant = "Extension" /\ node.kind = "Complex"

\* byte order of two property names
NameBefore(a, b) ==
    \E i, j \in 1..Len(StrOrder) : StrOrder[i] = a /\ StrOrder[j] = b /\ i <= j

\* the extension children of a separated node that carry this URL
WithUrl(node, url) == { name \in DOMAIN node.extension : node.extension[name].fce = url }

RECURSIVE SmallestNameKept(_, _)
\* `inverted` is what the inverter made of the separated node `separated`: its
\* extension map is keyed by the URLs of the extension children and holds, for
\* each URL, the child whose property name comes first
SmallestNameKept(separated, inverted) ==
    HasExtensionMap(separated) =>
        /\ DOMAIN inverted.extension =
              { separated.extension[name].fce : name \in DOMAIN separated.extension }
        /\ \A name \in DOMAIN separated.extension :
              LET url == separated.extension[name].fce
              IN  (\A other \in WithUrl(separated, url) : NameBefore(name, other)) =>
                      /\ inverted.extension[url].fce_property = name
                      /\ inverted.extension[url].id = separated.extension[name].id
                      /\ SmallestNameKept(separated.extension[name],
                                          inverted.extension[url])
        /\ separated.variant = "Normal" =>
              /\ DOMAIN inverted.children = DOMAIN separated.children
              /\ \A name \in DOMAIN separated.children :
                    SmallestNameKept(separated.children[name], inverted.children[name])

RECURSIVE ExtensionParents(_, _)
\* the separated nodes that have an extension map, each with its place
ExtensionParents(node, at) ==
    IF HasExtensionMap(node)
    THEN { << at, node >> }
         \cup UNION { ExtensionParents(node.extension[name], Append(at, name)) :
                        name \in DOMAIN node.extension }
         \cup (IF node.variant = "Normal"
               THEN UNION { ExtensionParents(node.children[name], Append(at, name)) :
                              name \in DOMAIN node.children }
               ELSE {})
    ELSE {}

AllExtensionParents ==
    UNION { ExtensionParents(sep_forest[rt].root, << rt >>) : rt \in DOMAIN sep_forest }

RECURSIVE Sum(_)
\* the sum of a function of numbers
Sum(f) ==
    IF DOMAIN f = {} THEN 0
    ELSE LET x == CHOOSE x \in DOMAIN f : TRUE
         IN  f[x] + Sum([y \in DOMAIN f \ { x } |-> f[y]])

\* the extension children that share this URL with an earlier sibling
Dropped(url) ==
    Sum([p \in AllExtensionParents |->
            IF WithUrl(p[2], url) = {} THEN 0 ELSE Cardinality(WithUrl(p[2], url)) - 1])

DuplicateCount(url) ==
    Cardinality({ i \in 1..Len(inv_errors) :
                    inv_errors[i] = [type |-> "DuplicateExtensionUrl", url |-> url] })

\* C10: after inversion every extension map is keyed by the URLs of its
\* extension children; of several children of one parent with the same URL the
\* one with the smallest property name is kept and every other one is dropped
\* with exactly one DuplicateExtensionUrl for that URL, so kept entries plus
\* DuplicateExtensionUrl diagnostics count the extension children.
C10_SmallestNameKept ==
    Inverted =>
        /\ DOMAIN inv_forest = DOMAIN sep_forest
        /\ \A rt \in DOMAIN sep_forest :
              SmallestNameKept(sep_forest[rt].root, inv_forest[rt].root)
        /\ \A url \in Urls : DuplicateCount(url) = Dropped(url)
        /\ Cardinality({ i \in 1..Len(inv_errors) :
                           inv_errors[i].type = "DuplicateExtensionUrl" })
              = Sum([url \in Urls |-> Dropped(url)])

\* a complex extension at [outer] whose children Coding and inner carry one
\* URL: Coding is kept, inner is reported
C10_Witness ==
    /\ Inverted
    /\ "Patient" \in DOMAIN sep_forest
    /\ sep_forest["Patient"].root.kind = "Inferred"
    /\ DOMAIN sep_forest["Patient"].root.extension = { "outer" }
    /\ LET outer == sep_forest["Patient"].root.extension["outer"]
       IN  /\ outer.kind = "Complex"
           /\ outer.fce = "http://x/o"
           /\ WithUrl(outer, "http://x/i") = { "Coding", "inner" }
    /\ inv_forest["Patient"].root.extension["http://x/o"].extension["http://x/i"].fce_property
          = "Coding"
    /\ inv_errors = << [type |-> "DuplicateExtensionUrl", url |-> "http://x/i"] >>


(***************************************************************************)
(* C11: element order of a complex-extension differential                  *)

\* the URLs of the inputs in ascending lexicographic order
UrlsAscending == << "http://x/ext1", "http://x/i", "http://x/o", "http://x/poly" >>

RECURSIVE Ascending(_, _)
\* the members of S in the order of the list
Ascending(order, S) ==
    IF order = << >> THEN << >>
    ELSE (IF Head(order) \in S THEN << Head(order) >> ELSE << >>)
         \o Ascending(Tail(order), S)

RECURSIVE NodeAt(_, _)
\* the normal node reached from node through the properties of names
NodeAt(node, names) ==
    IF names = << >> THEN node ELSE NodeAt(node.children[Head(names)], Tail(names))

\* the inverted extension named by an entry << parent, url >> of ParentExtensions
ExtensionOf(e) == NodeAt(inv_forest[e[1][1]].root, Tail(e[1])).extension[e[2]]

ComplexParentExtensions == { e \in ParentExtensions : ExtensionOf(e).kind = "Complex" }

\* the names of the targets of a simple extension that carry a value set
ValueSetTargets(targets) ==
    SelectSeq(SortedKeys(DOMAIN targets), LAMBDA t : IsSome(targets[t].value_set))

RECURSIVE GroupIds(_, _)
\* the ids of the child groups of an extension map under the element id `under`:
\* one contiguous group per child, in ascending order of the child URLs
GroupIds(under, extension) ==
    LET urls == Ascending(UrlsAscending, DOMAIN extension)
        group(url) ==
            LET slice == under \o ":" \o extension[url].fce_property
            IN  IF extension[url].kind = "Complex"
                THEN << slice, slice \o ".extension" >>
                     \o GroupIds(slice \o ".extension", extension[url].extension)
                     \o << slice \o ".url", slice \o ".value[x]" >>
                ELSE << slice, slice \o ".url", slice \o ".value[x]" >>
                     \o [i \in 1..Len(ValueSetTargets(extension[url].targets)) |->
                            slice \o ".value[x]:value"
                                  \o ValueSetTargets(extension[url].targets)[i]]
    IN  Flatten([i \in 1..Len(urls) |-> group(urls[i])])

ComplexLayout(extension) ==
    << "Extension", "Extension.extension" >>
    \o GroupIds("Extension.extension", extension.extension)
    \o << "Extension.url", "Extension.value[x]" >>

Ids(differential) == [i \in 1..Len(differential) |-> differential[i].id]

\* C11: the differential of every complex-extension SD lists Extension,
\* Extension.extension, then one contiguous group per child extension in
\* ascending order of the child URLs (a complex child group being its slice
\* element, its .extension, its own nested groups, its .url and its
\* .value[x]), then Extension.url and last Extension.value[x] with min 0 and
\* max "0".
C11_ComplexLayout ==
    Done =>
        \A e \in ComplexParentExtensions : \A i \in ExtSdFor(e) :
            LET differential == exts[i].differential
            IN  /\ Ids(differential) = ComplexLayout(ExtensionOf(e))
                /\ differential[Len(differential)].min = Some(0)
                /\ differential[Len(differential)].max = Some("0")

\* a complex extension whose two children come in URL order against the order
\* of their property names, one of them complex
C11_Witness ==
    /\ Done
    /\ \E i \in 1..Len(exts) :
          Ids(exts[i].differential) =
              << "Extension", "Extension.extension",
                 "Extension.extension:inner",
                 "Extension.extension:inner.extension",
                 "Extension.extension:inner.url",
                 "Extension.extension:inner.value[x]",
                 "Extension.extension:Coding",
                 "Extension.extension:Coding.url",
                 "Extension.extension:Coding.value[x]",
                 "Extension.url", "Extension.value[x]" >>

(***************************************************************************)
(* C12: the differential of a simple-extension SD                          *)

\* the keys of targets maps in ascending lexicographic order
TargetsAscending == << "Coding", "Reference", "given", "string" >>

SimpleParentExtensions == { e \in ParentExtensions : ExtensionOf(e).kind = "Simple" }

\* the differential the SD of a simple extension is to have
SimpleLayout(url, extension) ==
    LET keys == Ascending(TargetsAscending, DOMAIN extension.targets)
        with_value_set ==
            SelectSeq(keys, LAMBDA t : IsSome(extension.targets[t].value_set))
        ElementType(t) ==
            [code |-> t, profile |-> None,
             target_profile |->
                 IF extension.targets[t].refers = None THEN None
                 ELSE Some([j \in 1..Len(Unwrap(extension.targets[t].refers)) |->
                              "http://hl7.org/fhir/"
                              \o Unwrap(extension.targets[t].refers)[j]])]
    IN  << [id |-> "Extension", path |-> "Extension", slice_name |-> None,
            min |-> Some(IF extension.required THEN 1 ELSE 0),
            max |-> Some(IF extension.array THEN "*" ELSE "1"),
            fixed_url |-> None, slicing |-> None, type |-> None, binding |-> None,
            extension |-> Some(<< [url |-> LEGACY_FCE,
                                   value_string |-> extension.fce_property] >>)],
           [id |-> "Extension.url", path |-> "Extension.url", slice_name |-> None,
            min |-> Some(1), max |-> Some("1"), fixed_url |-> Some(url),
            slicing |-> None, type |-> None, binding |-> None, extension |-> None],
           [id |-> "Extension.value[x]", path |-> "Extension.value[x]",
            slice_name |-> None, min |-> Some(1), max |-> Some("1"),
            fixed_url |-> None, slicing |-> None,
            type |-> Some([i \in 1..Len(keys) |-> ElementType(keys[i])]),
            binding |-> None, extension |-> None] >>
        \o [i \in 1..Len(with_value_set) |->
               [id |-> "Extension.value[x]:value" \o with_value_set[i],
                path |-> "Extension.value[x]", slice_name |-> Some("value" \o with_value_set[i]),
                min |-> None, max |-> None, fixed_url |-> None, slicing |-> None,
                type |-> None,
                binding |-> Some([value_set |->
                               Unwrap(extension.targets[with_value_set[i]].value_set)]),
                extension |-> None]]

\* C12: the differential of every simple-extension SD is Extension (min 1 if
\* required else 0, max "*" if array else "1", the legacy-fce marker naming the
\* property), Extension.url (1..1, fixed to the URL), Extension.value[x] (1..1,
\* one type per targets entry in ascending key order, target_profile being the
\* refers with the FHIR prefix when refers is present), then one slice
\* Extension.value[x]:value<key> bound to the value set for each target that
\* has one: three elements plus one per target with a value set.
C12_SimpleLayout ==
    Done =>
        \A e \in SimpleParentExtensions : \A i \in ExtSdFor(e) :
            /\ exts[i].differential = SimpleLayout(e[2], ExtensionOf(e))
            /\ Len(exts[i].differential) =
                  3 + Cardinality({ t \in DOMAIN ExtensionOf(e).targets :
                                      IsSome(ExtensionOf(e).targets[t].value_set) })

\* a required polymorphic extension with two targets, one of them with a value
\* set: four elements
C12_Witness ==
    /\ Done
    /\ \E e \in SimpleParentExtensions : \E i \in ExtSdFor(e) :
          /\ Cardinality(DOMAIN ExtensionOf(e).targets) = 2
          /\ ExtensionOf(e).required
          /\ Len(exts[i].differential) = 4
          /\ exts[i].differential[4].id = "Extension.value[x]:valueCoding"

\* a collection extension of type Reference that refers to Patient
C12_WitnessRefers ==
    /\ Done
    /\ \E e \in SimpleParentExtensions : \E i \in ExtSdFor(e) :
          /\ ExtensionOf(e).array
          /\ exts[i].differential[1].max = Some("*")
          /\ exts[i].differential[3].type =
                Some(<< [code |-> "Reference", profile |-> None,
                         target_profile |-> Some(<< "http://hl7.org/fhir/Patient" >>)] >>)

(***************************************************************************)
(* C13: the simple extension example                                       *)

\* S2: a required string extension at [myExt]
SimpleExample ==
    << [RawBase EXCEPT !.id = "e1", !.path = << "myExt" >>,
                       !.type = Some(Ref("string", "Entity")),
                       !.extensionUrl = Some("http://x/ext1"),
                       !.isRequired = Some(TRUE)] >>

\* the three elements S2 names, in a differential of the given length
SimpleExampleSd(length) ==
    /\ Len(exts) = 1
    /\ exts[1].url = "http://x/ext1"
    /\ Len(exts[1].differential) = length
    /\ LET element == exts[1].differential
       IN  /\ element[1].id = "Extension"
           /\ element[1].min = Some(1) /\ element[1].max = Some("1")
           /\ element[2].id = "Extension.url"
           /\ element[2].fixed_url = Some("http://x/ext1")
           /\ element[3].id = "Extension.value[x]"
           /\ IsSome(element[3].type)
           /\ [i \in 1..Len(Unwrap(element[3].type)) |-> Unwrap(element[3].type)[i].code]
                 = << "string" >>
           /\ \A i \in 1..Len(element) : element[i].binding = None

\* C13 as stated: the required string extension e1 at [myExt] of Patient with
\* URL http://x/ext1 yields exactly one extension SD, at that URL, whose
\* differential has four elements (Extension 1..1, Extension.url fixed to the
\* URL, Extension.value[x] typed string, no value-set slice).
C13_FourElements ==
    (Done /\ aidbox_attributes = SimpleExample) => SimpleExampleSd(4)

\* C13 amended: the differential has the three elements named and no other.
C13_ThreeElements ==
    (Done /\ aidbox_attributes = SimpleExample) => SimpleExampleSd(3)

C13_Witness ==
    /\ Done
    /\ aidbox_attributes = SimpleExample
    /\ Len(exts) = 1
    /\ Len(exts[1].differential) = 3

(***************************************************************************)
(* C14: the profile SDs                                                    *)

\* the extensions a profile of the resource type is to list
ProfiledExtensions(rt) == { e \in ParentExtensions : e[1][1] = rt }

ProfileSdFor(rt) == { i \in 1..Len(profiles) : profiles[i].type = rt }

\* the profile element of the extension e
ProfileElement(e) ==
    [id |-> JoinDot(e[1]) \o ".extension:" \o ExtensionOf(e).fce_property,
     path |-> JoinDot(e[1]) \o ".extension",
     slice_name |-> Some(ExtensionOf(e).fce_property),
     min |-> IF ExtensionOf(e).required THEN Some(1) ELSE None,
     max |-> IF ExtensionOf(e).array THEN Some("*") ELSE Some("1"),
     fixed_url |-> None, slicing |-> None,
     type |-> Some(<< [code |-> "Extension", target_profile |-> None,
                       profile |-> Some(<< e[2] >>)] >>),
     binding |-> None, extension |-> None]

\* C14: a resource type gets a profile SD exactly when an extension lies in the
\* extension map of its root or of a complex or inferred node under normal
\* children; the differential is the root element (id = path = the resource
\* type) followed by exactly one element per such extension, with id
\* <RT>.<subpath>.extension:<property>, path <RT>.<subpath>.extension, the
\* property as slice name, min 1 if required else unset, max "*" if array else
\* "1" and type Extension with the URL as profile; nothing else contributes.
C14_ProfilePerExtension ==
    Done =>
        \A rt \in DOMAIN inv_forest :
            /\ Cardinality(ProfileSdFor(rt)) = IF ProfiledExtensions(rt) = {} THEN 0 ELSE 1
            /\ \A i \in ProfileSdFor(rt) :
                  LET element == profiles[i].differential
                  IN  /\ element[1] = ElementDefinition(rt, rt)
                      /\ Len(element) = 1 + Cardinality(ProfiledExtensions(rt))
                      /\ \A e \in ProfiledExtensions(rt) :
                            Cardinality({ j \in 2..Len(element) :
                                            element[j] = ProfileElement(e) }) = 1

\* a profile that lists a required extension of a nested complex node next to
\* a concrete leaf that contributes nothing
C14_Witness ==
    /\ Done
    /\ \E i \in 1..Len(profiles) :
          /\ Len(profiles[i].differential) = 2
          /\ profiles[i].differential[2].id = "Patient.myExt.extension:Coding"
          /\ profiles[i].differential[2].min = Some(1)
          /\ profiles[i].differential[2].max = Some("*")
    /\ "given" \in DOMAIN inv_forest["Patient"].root.children["myExt"].children

(***************************************************************************)
(* C15: determinism                                                        *)

\* what the run recorded in the state has put out
Output ==
    [exts |-> exts, profiles |-> profiles,
     errors |-> << attr_errors, raw_errors, sep_errors, inv_errors >>]

\* C15: a second run of the pipeline on the same attribute sequence, with
\* whatever hasher, puts out the same SD lists and the same diagnostic lists as
\* the first: no output depends on the iteration order of a hash collection.
C15_Deterministic ==
    Done => \A hasher \in HashLayouts : main(aidbox_attributes, hasher) = Output

\* a run that went through the HashSet of build_from_polymorphic with two
\* declared targets, one of them without a child, and an undeclared child
C15_Witness ==
    /\ Done
    /\ \E parent \in AllPolymorphicParents :
          /\ parent.variant = "Extension"
          /\ Len(parent.targets) = 2
          /\ Cardinality(DOMAIN parent.children) = 2
    /\ \E i \in 1..Len(inv_errors) : inv_errors[i].type = "PolymorphicUndeclaredTarget"
    /\ Len(exts) = 1

(***************************************************************************)
(* C16: the exit status                                                    *)

\* the diagnostics of every stage of the run
Diagnostics == read_errors \o attr_errors \o raw_errors \o sep_errors \o inv_errors

\* C16: without an ignore-errors flag, which this driver does not have, the
\* exit status is non-zero if a diagnostic fired in any stage (directory walk,
\* file open, decode, validation, raw forest, separation, inversion, emission)
\* and zero if none fired.
C16_ExitStatus ==
    Done => (exit_status # 0 <=> Diagnostics # << >>)

\* a run whose only diagnostic is a walk error, next to a file that converts:
\* the status is zero
C16_Witness ==
    /\ Done
    /\ Diagnostics = << [type |-> "walk"] >>
    /\ Len(aidbox_attributes) = 1
    /\ exit_status = 0

\* apart from walk errors the status follows the diagnostics
C16_ExitStatusButWalk ==
    Done => (exit_status # 0 <=>
                \E i \in 1..Len(Diagnostics) : Diagnostics[i] # [type |-> "walk"])

(***************************************************************************)
(* C17, C18: search parameter expressions                                  *)

Converted == pc = "converted"

\* the strings of the inputs, escaped for FHIRPath: a backslash doubled, a
\* single quote preceded by a backslash
Escaped(s) ==
    CASE s = "it's" -> "it\\'s"
      [] s = "a\\b" -> "a\\\\b"
      [] s = "\\'" -> "\\\\\\'"
      [] s = "http://x/o'k" -> "http://x/o\\'k"
      [] OTHER -> s

\* the keys of the filters in ascending order
FilterKeys == << "active", "use" >>

\* the term of one filter entry: the value as its literal
Term(k, v) ==
    k \o "=" \o (CASE v.tag = "String" -> "'" \o Escaped(v.s) \o "'"
                   [] v.tag = "Number" -> ToString(v.n)
                   [] v.tag = "Bool" -> IF v.b THEN "true" ELSE "false")

\* a filter rendered with every boolean as "true" or "false"
FilterRendering(filter) ==
    LET keys == SelectSeq(FilterKeys,
                          LAMBDA k : k \in DOMAIN filter /\ filter[k].tag # "Null")
    IN  ".where(" \o join([i \in 1..Len(keys) |-> Term(keys[i], filter[keys[i]])], " and ")
                  \o ")"

TooComplex(filter) == \E k \in DOMAIN filter : filter[k].tag \in { "Array", "Object" }

\* the calls with a filter after the one path item name, name not being an enum
FilterCall(filter) ==
    /\ Converted
    /\ sp_expression = << Path("name"), Filter(filter) >>
    /\ \A i \in 1..Len(aidbox_attributes) : aidbox_attributes[i].enum = None

FilterRendered(filter) ==
    IF TooComplex(filter)
    THEN /\ ~Unwrap(sp_converted).ok
         /\ Unwrap(sp_converted).error.type = "TooComplexFilter"
    ELSE sp_converted = Some(Ok("Patient.name" \o FilterRendering(filter)))

\* C17: convert_path renders a Filter item as ".where(" then the terms joined
\* by " and " then ")", one term k=v per entry that is not null, in ascending
\* key order: a string in single quotes with backslash and single quote
\* escaped, a number or a boolean as its literal; a filter with an array or
\* object value is the error TooComplexFilter.
C17_FilterRendering ==
    \A filter \in Filters : FilterCall(filter) => FilterRendered(filter)

\* the filter {active: false} comes out as where(active=true)
C17_Witness ==
    /\ FilterCall(MapPut(EmptyMap, "active", Bool(FALSE)))
    /\ sp_converted = Some(Ok("Patient.name.where(active=true)"))

\* apart from the boolean false, filters are rendered as C17 says
C17_FilterRenderingButFalse ==
    \A filter \in Filters :
        (FilterCall(filter) /\ \A k \in DOMAIN filter : filter[k] # Bool(FALSE))
            => FilterRendered(filter)

\* two terms in key order with an escaped string
C17_WitnessEscaped ==
    /\ FilterCall(MapPut(MapPut(EmptyMap, "use", String("\\'")), "active", Number(7)))
    /\ sp_converted = Some(Ok("Patient.name.where(active=7 and use='\\\\\\'')"))

\* the attributes whose path is the given one
AttributesAt(path) ==
    { a \in { aidbox_attributes[i] : i \in 1..Len(aidbox_attributes) } : a.path = path }

RECURSIVE PathRendering(_, _)
\* what the items add to the resource type, the path items before them being
\* prefix: the text, or the name of the error
PathRendering(items, prefix) ==
    IF items = << >> THEN Ok("")
    ELSE LET item == Head(items)
             Then(text, path) ==
                 LET rest == PathRendering(Tail(items), path)
                 IN  IF rest.ok THEN Ok(text \o rest.value) ELSE rest
         IN  CASE item.tag = "Index" -> Then("[" \o ToString(item.i) \o "]", prefix)
               [] item.tag = "Filter" ->
                    IF TooComplex(item.filter) THEN Err("TooComplexFilter")
                    ELSE Then(FilterRendering(item.filter), prefix)
               [] item.tag = "Path" ->
                    LET path == Append(prefix, item.name)
                    IN  IF \E a \in AttributesAt(path) : IsSome(a.enum)
                        THEN Err("EnumAttributeNotImplemented")
                        ELSE IF \E a \in AttributesAt(path) : IsSome(a.extensionUrl)
                        THEN LET a == CHOOSE a \in AttributesAt(path) : TRUE
                             IN  Then(".extension('" \o Escaped(Unwrap(a.extensionUrl)) \o "')"
                                        \o (IF IsSome(a.type)
                                            THEN ".value.ofType(" \o Unwrap(a.type).id \o ")"
                                            ELSE ""),
                                      path)
                        ELSE Then("." \o item.name, path)

\* expressions without the boolean false in a filter
WithoutFalse(expr) ==
    \A i \in 1..Len(expr) :
        expr[i].tag = "Filter" => \A k \in DOMAIN expr[i].filter : expr[i].filter[k] # Bool(FALSE)

\* C18: convert_path returns the resource type followed, item by item, by "[i]"
\* without a dot for an Index; by "." and the name for a Path item whose prefix
\* (the Path items so far) is the path of no attribute or of an attribute
\* without extensionUrl; by ".extension('<escaped url>')", and then
\* ".value.ofType(<type id>)" exactly if the attribute has a type, for a Path
\* item whose prefix is the path of an attribute with extensionUrl; an
\* attribute with enum on the prefix gives EnumAttributeNotImplemented.
C18_PathRendering ==
    (Converted /\ WithoutFalse(sp_expression)) =>
        LET expected == PathRendering(sp_expression, << >>)
        IN  IF expected.ok
            THEN sp_converted = Some(Ok("Patient" \o expected.value))
            ELSE /\ ~Unwrap(sp_converted).ok
                 /\ Unwrap(sp_converted).error.type = expected.error

\* an untyped extension with a quote in its URL, then an index and a name that
\* is the path of no attribute
C18_Witness ==
    /\ Converted
    /\ sp_expression = << Path("myExt"), Index(0), Path("given") >>
    /\ sp_converted = Some(Ok("Patient.extension('http://x/o\\'k')[0].given"))

\* a typed extension found through the path items on both sides of an index
C18_WitnessTyped ==
    /\ Converted
    /\ sp_expression = << Path("name"), Index(0), Path("given") >>
    /\ sp_converted =
          Some(Ok("Patient.name[0].extension('http://x/i').value.ofType(string)"))

C18_WitnessEnum ==
    /\ Converted
    /\ sp_expression = << Path("myExt"), Path("name") >>
    /\ ~Unwrap(sp_converted).ok
    /\ Unwrap(sp_converted).error.type = "EnumAttributeNotImplemented"

(***************************************************************************)
(* C19, C20: the targets of a simple extension                             *)

\* the polymorphic extensions in the extension maps of the roots, each with the
\* simple extension the inverter made of it
InvertedPolymorphicExtensions ==
    UNION { { << sep_forest[rt].root.extension[name],
                 inv_forest[rt].root.extension[sep_forest[rt].root.extension[name].fce] >> :
                name \in { n \in DOMAIN sep_forest[rt].root.extension :
                             sep_forest[rt].root.extension[n].kind = "Polymorphic" } } :
            rt \in { r \in DOMAIN sep_forest : HasExtensionMap(sep_forest[r].root) } }

\* the leaves of a polymorphic extension whose type is the target
LeavesOf(source, target) ==
    { source.children[name] : name \in { n \in DOMAIN source.children :
                                           source.children[n].target = target } }

ExtensionTarget(leaf) == [id |-> leaf.id, refers |-> leaf.refers, value_set |-> leaf.value_set]

\* C19: the simple extension made of a polymorphic extension has one targets
\* entry for each target declared in the union: that of its leaf (id, refers,
\* value set) if the target has one, and otherwise one with empty refers and
\* value set; a leaf whose target is not declared is reported as
\* PolymorphicUndeclaredTarget and has an entry as well.
C19_EntryPerDeclaredTarget ==
    Inverted =>
        \A p \in InvertedPolymorphicExtensions :
            /\ \A target \in DeclaredTargets(p[1]) :
                  /\ target \in DOMAIN p[2].targets
                  /\ \A leaf \in LeavesOf(p[1], target) :
                        p[2].targets[target] = ExtensionTarget(leaf)
                  /\ LeavesOf(p[1], target) = {} =>
                        /\ p[2].targets[target].refers = None
                        /\ p[2].targets[target].value_set = None
            /\ \A name \in DOMAIN p[1].children :
                  p[1].children[name].target \notin DeclaredTargets(p[1]) =>
                      /\ p[1].children[name].target \in DOMAIN p[2].targets
                      /\ \E i \in 1..Len(inv_errors) :
                            /\ inv_errors[i].type = "PolymorphicUndeclaredTarget"
                            /\ inv_errors[i].attr_id = p[1].id

\* a union of Coding and string with a leaf for Coding alone: string has no entry
C19_Witness ==
    /\ Inverted
    /\ \E p \in InvertedPolymorphicExtensions :
          /\ DeclaredTargets(p[1]) = { "Coding", "string" }
          /\ DOMAIN p[1].children = { "Coding" }
          /\ p[1].children["Coding"].target = "Coding"
          /\ DOMAIN p[2].targets = { "Coding" }
    /\ inv_errors = << >>

RECURSIVE SimpleExtensionsIn(_)
\* the simple extensions of an inverted extension map, nested ones included
SimpleExtensionsIn(extension) ==
    UNION { IF extension[url].kind = "Simple" THEN { extension[url] }
            ELSE SimpleExtensionsIn(extension[url].extension) : url \in DOMAIN extension }

RECURSIVE SimpleExtensionsUnder(_)
SimpleExtensionsUnder(node) ==
    IF node.kind \in { "Complex", "Inferred" }
    THEN SimpleExtensionsIn(node.extension)
         \cup UNION { SimpleExtensionsUnder(node.children[name]) :
                        name \in DOMAIN node.children }
    ELSE {}

AllSimpleExtensions ==
    UNION { SimpleExtensionsUnder(inv_forest[rt].root) : rt \in DOMAIN inv_forest }

\* the type name of the concrete attribute with this id
TypeOf(id) ==
    LET a == CHOOSE a \in { typed_attributes[i] : i \in 1..Len(typed_attributes) } : a.id = id
    IN  a.kind.target

\* C20: in every simple extension of the inverted forest each key of targets is
\* the type name of the concrete attribute stored under it, whatever the
\* property name of that attribute, so the type codes of value[x] and the
\* value<TypeName> slice names of its SD are declared types.
C20_KeyedByType ==
    Inverted =>
        \A extension \in AllSimpleExtensions : \A key \in DOMAIN extension.targets :
            key = TypeOf(extension.targets[key].id)

\* the child at [myExt, Coding] of a polymorphic extension is a string: its
\* entry is keyed Coding and the SD lists the type Coding, with no diagnostic
C20_Witness ==
    /\ Done
    /\ \E extension \in AllSimpleExtensions :
          /\ DOMAIN extension.targets = { "Coding" }
          /\ TypeOf(extension.targets["Coding"].id) = "string"
    /\ Len(exts) = 1
    /\ exts[1].differential[3].type =
          Some(<< [code |-> "Coding", profile |-> None, target_profile |-> None] >>)
    /\ Diagnostics = << >>

\* a simple extension made of a concrete extension, or of a polymorphic one whose
\* children are named by their types
NamedByType(extension) ==
    \A p \in InvertedPolymorphicExtensions :
        p[2] = extension =>
            \A name \in DOMAIN p[1].children : p[1].children[name].target = name

\* where the children are named by their types the keys are the types
C20_KeyedByTypeWhenNamedByType ==
    Inverted =>
        \A extension \in AllSimpleExtensions :
            NamedByType(extension) =>
                \A key \in DOMAIN extension.targets :
                    key = TypeOf(extension.targets[key].id)

(***************************************************************************)
(* C21: concrete nodes with children                                       *)

RECURSIVE SeparatorVisits(_)
\* the lifted nodes the separator builds a node or a leaf from, below and
\* including `node`: the children of a complex or inferred node, the extension
\* children of a complex extension and the concrete children of a polymorphic
\* node or extension
SeparatorVisits(node) ==
    { node }
    \cup UNION { IF node.kind \in { "Complex", "Inferred" } /\ node.variant = "Normal"
                 THEN SeparatorVisits(node.children[name])
                 ELSE IF node.kind = "Complex"
                 THEN IF node.children[name].variant = "Extension"
                      THEN SeparatorVisits(node.children[name])
                      ELSE {}
                 ELSE IF node.kind = "Polymorphic" /\ node.children[name].kind = "Concrete"
                 THEN { node.children[name] }
                 ELSE {} :
                 name \in DOMAIN node.children }

\* the nodes the separator visits in every trie; a root that is an extension is
\* visited as the normal node it is converted to
AllSeparatorVisits ==
    UNION { SeparatorVisits(IF path_forest[rt].root.variant = "Extension"
                            THEN convert_to_normal_node(path_forest[rt].root)
                            ELSE path_forest[rt].root) :
              rt \in DOMAIN path_forest }

\* the concrete nodes with a child among them
ConcreteParents ==
    { n \in AllSeparatorVisits : n.kind = "Concrete" /\ n.children # EmptyMap }

RECURSIVE LiftedIds(_)
\* the attribute ids of a lifted subtree
LiftedIds(node) ==
    (IF node.kind = "Inferred" THEN {} ELSE { node.id })
    \cup UNION { LiftedIds(node.children[name]) : name \in DOMAIN node.children }

RECURSIVE SeparatedIds(_)
\* the attribute ids of a separated subtree, polymorphic leaves included
SeparatedIds(node) ==
    IF node.kind = "Concrete" THEN { node.id }
    ELSE IF node.kind = "Polymorphic"
    THEN { node.id } \cup { node.children[name].id : name \in DOMAIN node.children }
    ELSE (IF node.kind = "Inferred" THEN {} ELSE { node.id })
         \cup (IF node.variant = "Normal"
               THEN UNION { SeparatedIds(node.children[name]) :
                              name \in DOMAIN node.children }
               ELSE {})
         \cup UNION { SeparatedIds(node.extension[name]) : name \in DOMAIN node.extension }

AllSeparatedIds == UNION { SeparatedIds(sep_forest[rt].root) : rt \in DOMAIN sep_forest }

ConcreteHasChildReported(n) ==
    \E i \in 1..Len(sep_errors) :
        sep_errors[i] = [type |-> "ConcreteHasChild", node_id |-> n.id]

ChildrenDropped(n) ==
    \A name \in DOMAIN n.children : LiftedIds(n.children[name]) \cap AllSeparatedIds = {}

\* C21: for every concrete node with a child that the separator builds from, a
\* concrete child flattened into a polymorphic leaf included, ConcreteHasChild
\* with the node's id is reported and no attribute below the node is in the
\* separated forest.
C21_ConcreteHasChildReported ==
    Separated =>
        \A n \in ConcreteParents : ConcreteHasChildReported(n) /\ ChildrenDropped(n)

\* a concrete child of a polymorphic node has a child of its own; it is kept as
\* a leaf, its child is gone and the separator reported nothing
C21_Witness ==
    /\ Separated
    /\ sep_errors = << >>
    /\ \E n \in ConcreteParents :
          /\ n.id = "s2"
          /\ ChildrenDropped(n)
          /\ sep_forest["Patient"].root.children["outer"].kind = "Polymorphic"
          /\ sep_forest["Patient"].root.children["outer"].children["inner"].id = "s2"

\* apart from polymorphic leaves the claim holds: a concrete node that is not
\* the child of a polymorphic parent is reported and loses its children
C21_ReportedUnlessLeaf ==
    Separated =>
        \A n \in ConcreteParents :
            /\ ChildrenDropped(n)
            /\ \/ ConcreteHasChildReported(n)
               \/ \E p \in AllPolymorphicParents :
                      \E name \in DOMAIN p.children : p.children[name].id = n.id


(***************************************************************************)
(* C22, C23: concrete attributes in the validator                          *)

\* the validated attributes with type set, union unset
ConcreteInputs ==
    { aidbox_attributes[i] : i \in { j \in 1..Validated :
          /\ IsSome(aidbox_attributes[j].type)
          /\ ~IsSome(aidbox_attributes[j].union) } }

Count(condition) == IF condition THEN 1 ELSE 0

\* C22: for a concrete attribute whose type reference is not of kind Attribute,
\* the validator reports OpenSchema iff isOpen is true, ValueSetOnWrongType iff
\* valueSet is present and type.id is not a coded type, EnumOnNonStringType iff
\* enum is present and type.id is not a string type, RefersOnNonReferenceType
\* iff refers is present and type.id is not Reference, InvalidValuesetReference
\* iff valueSet is present with a kind other than ValueSet; each at most once.
C22_ConcreteDiagnostics ==
    \A a \in ConcreteInputs :
        Unwrap(a.type).resourceType # "Attribute" =>
            /\ ErrorCount(a.id, "InvalidConcrete.OpenSchema") = Count(a.isOpen = Some(TRUE))
            /\ ErrorCount(a.id, "ValueSetOnWrongType")
                  = Count(a.valueSet # None /\ Unwrap(a.type).id \notin CODED_TYPES)
            /\ ErrorCount(a.id, "EnumOnNonStringType")
                  = Count(a.enum # None /\ Unwrap(a.type).id \notin STRING_TYPES)
            /\ ErrorCount(a.id, "RefersOnNonReferenceType")
                  = Count(a.refers # None /\ Unwrap(a.type).id # "Reference")
            /\ ErrorCount(a.id, "InvalidValuesetReference")
                  = Count(a.valueSet # None /\ Unwrap(a.valueSet).resourceType # "ValueSet")

\* a date with isOpen = false, an enum, refers and a value set reference of kind
\* Entity: three of the five diagnostics, once each
C22_Witness ==
    /\ Done
    /\ \E a \in ConcreteInputs :
          /\ a.type = Some(Ref("date", "Entity"))
          /\ a.isOpen = Some(FALSE)
          /\ a.enum # None /\ a.refers # None
          /\ a.valueSet = Some(Ref("VS1", "Entity"))
          /\ ErrorCount(a.id, "InvalidConcrete.OpenSchema") = 0
          /\ ErrorCount(a.id, "EnumOnNonStringType") = 0
          /\ ErrorCount(a.id, "ValueSetOnWrongType") = 1
          /\ ErrorCount(a.id, "RefersOnNonReferenceType") = 1
          /\ ErrorCount(a.id, "InvalidValuesetReference") = 1

\* the typed attribute the claim describes for a concrete input
TypedConcrete(a) ==
    [id |-> a.id,
     path |-> a.path,
     resource_type |-> a.resource.id,
     kind |-> [tag |-> "Concrete",
               target |-> Unwrap(a.type).id,
               value_set |-> IF a.valueSet = None THEN None
                             ELSE Some(Unwrap(a.valueSet).id),
               refers |-> a.refers,
               enumeration |-> a.enum],
     array |-> (a.isCollection = Some(TRUE)),
     required |-> (a.isRequired = Some(TRUE)),
     fce |-> a.extensionUrl]

\* C23: a concrete attribute is dropped only when its type reference has kind
\* Attribute, with InvalidEntityReference reported; in every other case,
\* whatever else is reported (a wrong kind of the resource or type reference,
\* ValueSetOnWrongType, EnumOnNonStringType, RefersOnNonReferenceType,
\* OpenSchema, InvalidValuesetReference), one typed attribute is produced with
\* resource_type = resource.id, target = type.id, array and required true iff
\* isCollection and isRequired are true, fce = extensionUrl and value_set,
\* refers and enum as given.
C23_ConcreteKept ==
    \A a \in ConcreteInputs :
        IF Unwrap(a.type).resourceType = "Attribute"
        THEN /\ TypedOf(a.id) = << >>
             /\ \E i \in 1..Len(attr_errors) :
                   /\ attr_errors[i].id = a.id
                   /\ attr_errors[i].source = InvalidEntityReference(Unwrap(a.type))
        ELSE TypedOf(a.id) = << TypedConcrete(a) >>

\* a Reference of kind ValueSet on a resource reference of kind Attribute, open,
\* with an enum and a value set of the wrong kind: five diagnostics, and the
\* typed attribute is in the raw forest
C23_Witness ==
    /\ Done
    /\ \E a \in ConcreteInputs :
          /\ a.type = Some(Ref("string", "ValueSet"))
          /\ a.resource.resourceType = "Attribute"
          /\ a.isOpen = Some(TRUE)
          /\ a.valueSet = Some(Ref("VS1", "Entity"))
          /\ a.refers # None
          /\ a.isCollection = Some(TRUE)
          /\ ErrorCount(a.id, "InvalidEntityReference") = 2
          /\ ErrorCount(a.id, "RefersOnNonReferenceType") = 1
          /\ TypedOf(a.id) = << TypedConcrete(a) >>
          /\ HoldsAttribute(raw_forest["Patient"].root, a.id)

\* a concrete attribute whose type reference has kind Attribute is dropped
C23_WitnessDropped ==
    /\ Done
    /\ \E a \in ConcreteInputs :
          /\ Unwrap(a.type).resourceType = "Attribute"
          /\ typed_attributes = << >>
          /\ raw_forest = EmptyMap

(***************************************************************************)
(* C24: polymorphic attributes in the validator                            *)

\* the validated attributes with union set, type unset
PolymorphicInputs ==
    { aidbox_attributes[i] : i \in { j \in 1..Validated :
          /\ ~IsSome(aidbox_attributes[j].type)
          /\ IsSome(aidbox_attributes[j].union) } }

\* the ids of the union entries whose kind is not Attribute, in union order
ValidTargets(union) ==
    LET valid == SelectSeq(union, LAMBDA r : r.resourceType # "Attribute")
    IN  [i \in 1..Len(valid) |-> valid[i].id]

PolymorphicTyped == SelectSeq(typed_attributes, LAMBDA t : t.kind.tag = "Poly")

\* C24: every polymorphic typed attribute has at least one target;
\* read_poly_attribute produces an attribute iff some union entry has a kind
\* other than Attribute, with the ids of exactly those entries as targets in
\* union order; NoTargets is reported iff the union is empty, ValueSetPresent,
\* EnumPresent, RefersPresent iff the field is present and OpenSchema iff isOpen
\* is true, and none of these four drops the attribute.
C24_PolymorphicTargets ==
    /\ \A i \in 1..Len(PolymorphicTyped) : PolymorphicTyped[i].kind.targets # << >>
    /\ \A a \in PolymorphicInputs :
          /\ TypedOf(a.id) # << >> <=> ValidTargets(Unwrap(a.union)) # << >>
          /\ TypedOf(a.id) # << >> =>
                /\ Len(TypedOf(a.id)) = 1
                /\ TypedOf(a.id)[1].kind = [tag |-> "Poly",
                                            targets |-> ValidTargets(Unwrap(a.union))]
          /\ ErrorCount(a.id, "InvalidPolymorphic.NoTargets") = Count(a.union = Some(<< >>))
          /\ ErrorCount(a.id, "InvalidPolymorphic.ValueSetPresent") = Count(a.valueSet # None)
          /\ ErrorCount(a.id, "InvalidPolymorphic.EnumPresent") = Count(a.enum # None)
          /\ ErrorCount(a.id, "InvalidPolymorphic.RefersPresent") = Count(a.refers # None)
          /\ ErrorCount(a.id, "InvalidPolymorphic.OpenSchema") = Count(a.isOpen = Some(TRUE))

\* a union of a string and a Coding of kind ValueSet, with a value set, an enum,
\* refers and isOpen: all four reported and both targets kept, in order
C24_Witness ==
    /\ Done
    /\ \E a \in PolymorphicInputs :
          /\ a.valueSet # None /\ a.enum # None /\ a.refers # None
          /\ a.isOpen = Some(TRUE)
          /\ TypedOf(a.id) # << >>
          /\ TypedOf(a.id)[1].kind.targets = << "string", "Coding" >>
          /\ ErrorCount(a.id, "InvalidPolymorphic.ValueSetPresent") = 1
          /\ ErrorCount(a.id, "InvalidPolymorphic.OpenSchema") = 1

\* a union whose only entry has kind Attribute: no typed attribute, no NoTargets
C24_WitnessDropped ==
    /\ Done
    /\ \E a \in PolymorphicInputs :
          /\ Len(Unwrap(a.union)) = 1
          /\ TypedOf(a.id) = << >>
          /\ ErrorCount(a.id, "InvalidPolymorphic.NoTargets") = 0
          /\ ErrorCount(a.id, "InvalidEntityReference") >= 1

(***************************************************************************)
(* C25: the children of a polymorphic node                                 *)

SepErrorCount(e) == Cardinality({ i \in 1..Len(sep_errors) : sep_errors[i] = e })

\* the lifted polymorphic nodes and extensions the separator builds from, each
\* with what it was built into
SeparatedPolymorphic ==
    { << n, p >> \in { m \in AllSeparatorVisits : m.kind = "Polymorphic" }
                     \X AllPolymorphicParents :
        n.id = p.id }

IsConcreteChild(c) == c.kind = "Concrete"

\* C25: a polymorphic node or extension keeps exactly its concrete children
\* (normal or extension), each under its property name as a leaf with the
\* child's id, refers, value_set and target; PolymorphicChildExtension is
\* reported for each concrete extension child, PolymorphicNonConcreteChild for
\* each polymorphic or complex child, PolymorphicInferredChild for each
\* attribute-less child, PolymorphicChildHasArray / PolymorphicChildIsRequired
\* for each kept child with array / required set.
C25_PolymorphicChildren ==
    Separated =>
        /\ \A n \in { m \in AllSeparatorVisits : m.kind = "Polymorphic" } :
              \E p \in AllPolymorphicParents : n.id = p.id
        /\ \A np \in SeparatedPolymorphic :
              LET n == np[1]
                  p == np[2]
              IN  /\ DOMAIN p.children
                        = { name \in DOMAIN n.children : IsConcreteChild(n.children[name]) }
                  /\ \A name \in DOMAIN p.children :
                        /\ p.children[name].id = n.children[name].id
                        /\ p.children[name].refers = n.children[name].refers
                        /\ p.children[name].value_set = n.children[name].value_set
                        /\ p.children[name].target = n.children[name].target
                  /\ \A name \in DOMAIN n.children :
                        LET c == n.children[name]
                        IN  /\ c.kind # "Inferred" =>
                                  /\ SepErrorCount([type |-> "PolymorphicChildExtension",
                                                    attr_id |-> n.id, child_id |-> c.id])
                                        = Count(IsConcreteChild(c) /\ c.variant = "Extension")
                                  /\ SepErrorCount([type |-> "PolymorphicNonConcreteChild",
                                                    attr_id |-> n.id, child_id |-> c.id])
                                        = Count(c.kind \in { "Polymorphic", "Complex" })
                                  /\ SepErrorCount([type |-> "PolymorphicChildHasArray",
                                                    attr_id |-> c.id])
                                        = Count(IsConcreteChild(c) /\ c.array)
                                  /\ SepErrorCount([type |-> "PolymorphicChildIsRequired",
                                                    attr_id |-> c.id])
                                        = Count(IsConcreteChild(c) /\ c.required)
                            /\ SepErrorCount([type |-> "PolymorphicInferredChild",
                                              attr_id |-> n.id, child_prop |-> name])
                                  = Count(c.kind = "Inferred")

\* a polymorphic extension with a required Reference extension as one child and
\* an attribute-less child as the other: the first is kept as a leaf with its
\* refers, the second is dropped
C25_Witness ==
    /\ Separated
    /\ \E np \in SeparatedPolymorphic :
          /\ np[1].variant = "Extension"
          /\ DOMAIN np[1].children = { "Coding", "inner" }
          /\ np[1].children["inner"].kind = "Inferred"
          /\ np[1].children["Coding"].variant = "Extension"
          /\ DOMAIN np[2].children = { "Coding" }
          /\ np[2].children["Coding"].refers = Some(<< "Patient" >>)
          /\ SepErrorCount([type |-> "PolymorphicChildIsRequired", attr_id |-> "s4"]) = 1
          /\ SepErrorCount([type |-> "PolymorphicChildExtension",
                            attr_id |-> "s1", child_id |-> "s4"]) = 1
          /\ SepErrorCount([type |-> "PolymorphicInferredChild",
                            attr_id |-> "s1", child_prop |-> "inner"]) = 1

\* a normal polymorphic node whose children are a polymorphic one and an array
C25_WitnessNormal ==
    /\ Separated
    /\ \E np \in SeparatedPolymorphic :
          /\ np[1].variant = "Normal"
          /\ DOMAIN np[1].children = { "Coding", "inner" }
          /\ np[1].children["Coding"].kind = "Polymorphic"
          /\ np[1].children["inner"].kind = "Concrete" /\ np[1].children["inner"].array
          /\ DOMAIN np[2].children = { "inner" }

(***************************************************************************)
(* C26, C27: the children of complex and inferred nodes                    *)

RECURSIVE SeparatedNodes(_)
\* the nodes of a separated subtree (polymorphic leaves are not nodes)
SeparatedNodes(node) ==
    { node }
    \cup (IF node.kind \in { "Complex", "Inferred" }
          THEN (IF node.variant = "Normal"
                THEN UNION { SeparatedNodes(node.children[name]) :
                               name \in DOMAIN node.children }
                ELSE {})
               \cup UNION { SeparatedNodes(node.extension[name]) :
                              name \in DOMAIN node.extension }
          ELSE {})

AllSeparatedNodes ==
    UNION { SeparatedNodes(sep_forest[rt].root) : rt \in DOMAIN sep_forest }

\* the lifted complex extensions the separator builds from, each with what it
\* was built into
SeparatedComplexExtensions ==
    { << n, p >> \in { m \in AllSeparatorVisits :
                         m.kind = "Complex" /\ m.variant = "Extension" }
                     \X { q \in AllSeparatedNodes :
                            q.kind = "Complex" /\ q.variant = "Extension" } :
        n.id = p.id }

SepErrorsOf(type, parent_id) ==
    Cardinality({ i \in 1..Len(sep_errors) :
                    /\ sep_errors[i].type = type
                    /\ sep_errors[i].parent_id = parent_id })

\* C26: a complex extension keeps exactly its extension children, each under
\* its property name and converted in turn; every other child is dropped with
\* its subtree, with NonExtensionInsideExtension{parent_id, child_id} if it has
\* an attribute and MissingChild{parent_id, child_property} if it has none;
\* the kept children and these diagnostics add up to the number of children.
C26_ComplexExtensionChildren ==
    Separated =>
        /\ \A n \in { m \in AllSeparatorVisits : m.kind = "Complex" /\ m.variant = "Extension" } :
              \E np \in SeparatedComplexExtensions : np[1] = n
        /\ \A np \in SeparatedComplexExtensions :
              LET n == np[1]
                  p == np[2]
                  dropped == { name \in DOMAIN n.children :
                                 n.children[name].variant # "Extension" }
              IN  /\ DOMAIN p.extension = DOMAIN n.children \ dropped
                  /\ \A name \in DOMAIN p.extension :
                        p.extension[name] = sep_Extension_build_from(n.children[name]).node
                  /\ \A name \in dropped :
                        /\ LiftedIds(n.children[name]) \cap AllSeparatedIds = {}
                        /\ n.children[name].kind # "Inferred" =>
                              SepErrorCount([type |-> "NonExtensionInsideExtension",
                                             parent_id |-> n.id,
                                             child_id |-> n.children[name].id]) = 1
                        /\ SepErrorCount([type |-> "MissingChild", parent_id |-> n.id,
                                          child_property |-> name])
                              = Count(n.children[name].kind = "Inferred")
                  /\ Cardinality(DOMAIN p.extension)
                        + SepErrorsOf("NonExtensionInsideExtension", n.id)
                        + SepErrorsOf("MissingChild", n.id)
                     = Cardinality(DOMAIN n.children)

\* a complex extension with an extension child, kept, and an attribute-less
\* child that has a child of its own, dropped with it
C26_Witness ==
    /\ Separated
    /\ \E np \in SeparatedComplexExtensions :
          /\ np[1].id = "s1"
          /\ DOMAIN np[1].children = { "Coding", "inner" }
          /\ np[1].children["inner"].kind = "Inferred"
          /\ DOMAIN np[1].children["inner"].children = { "Coding" }
          /\ DOMAIN np[2].extension = { "Coding" }
          /\ "s3" \notin AllSeparatedIds
          /\ SepErrorCount([type |-> "MissingChild", parent_id |-> "s1",
                            child_property |-> "inner"]) = 1

\* a complex extension inside a complex extension, the inner one with a normal
\* concrete child that is dropped
C26_WitnessNested ==
    /\ Separated
    /\ \E np \in SeparatedComplexExtensions :
          /\ np[1].id = "s2"
          /\ DOMAIN np[1].children = { "Coding" }
          /\ np[2].extension = EmptyMap
          /\ SepErrorCount([type |-> "NonExtensionInsideExtension", parent_id |-> "s2",
                            child_id |-> "s3"]) = 1
    /\ \E np \in SeparatedComplexExtensions : np[1].id = "s1"

RECURSIVE SeparatedPairs(_, _)
\* a lifted node with the separated node built from it, and the same for every
\* child of a complex or inferred node that is found under its own name
SeparatedPairs(n, p) ==
    { << n, p >> }
    \cup (IF n.kind \in { "Complex", "Inferred" }
          THEN UNION { IF n.variant = "Normal" /\ name \in DOMAIN p.children
                       THEN SeparatedPairs(n.children[name], p.children[name])
                       ELSE IF name \in DOMAIN p.extension
                       THEN SeparatedPairs(n.children[name], p.extension[name])
                       ELSE {} :
                       name \in DOMAIN n.children }
          ELSE {})

\* the complex normal nodes and inferred nodes, each with what it was built into
SeparatedPartitions ==
    { np \in UNION { SeparatedPairs(IF path_forest[rt].root.variant = "Extension"
                                    THEN convert_to_normal_node(path_forest[rt].root)
                                    ELSE path_forest[rt].root,
                                    sep_forest[rt].root) : rt \in DOMAIN sep_forest } :
        np[1].kind \in { "Complex", "Inferred" } /\ np[1].variant = "Normal" }

\* the diagnostics of converting one lifted node
ErrorsOf(n) ==
    IF n.variant = "Normal" THEN sep_NormalNode_build_from(n).errors
    ELSE sep_Extension_build_from(n).errors

\* C27: a complex normal node or an inferred node puts every child into
\* exactly one of its two maps under its property name, into `extension` iff
\* the child is an Extension variant and into `children` otherwise: the key
\* sets are disjoint, their union is the key set of the source children, no
\* child is dropped, and the node's diagnostics are those of its children.
C27_Partition ==
    Separated =>
        /\ DOMAIN sep_forest = DOMAIN path_forest
        /\ \A np \in SeparatedPartitions :
              LET n == np[1]
                  p == np[2]
              IN  /\ p.kind = n.kind
                  /\ DOMAIN p.extension
                        = { name \in DOMAIN n.children : n.children[name].variant = "Extension" }
                  /\ DOMAIN p.children
                        = { name \in DOMAIN n.children : n.children[name].variant # "Extension" }
                  /\ DOMAIN p.extension \cap DOMAIN p.children = {}
                  /\ DOMAIN p.extension \cup DOMAIN p.children = DOMAIN n.children
                  /\ \A name \in DOMAIN p.extension :
                        /\ p.extension[name].variant = "Extension"
                        /\ p.extension[name].id = n.children[name].id
                  /\ \A name \in DOMAIN p.children :
                        /\ p.children[name].variant = "Normal"
                        /\ p.children[name].kind = n.children[name].kind
                        /\ n.children[name].kind # "Inferred" =>
                              p.children[name].id = n.children[name].id
                  /\ Len(ErrorsOf(n)) = Sum([name \in DOMAIN n.children |->
                                                Len(ErrorsOf(n.children[name]))])

\* a complex node with an extension child and a normal child, and nothing
\* reported
C27_Witness ==
    /\ Separated
    /\ sep_errors = << >>
    /\ \E np \in SeparatedPartitions :
          /\ np[1].kind = "Complex"
          /\ DOMAIN np[1].children = { "Coding", "inner" }
          /\ DOMAIN np[2].extension = { "Coding" }
          /\ DOMAIN np[2].children = { "inner" }

\* an inferred node below the root, with an extension child
C27_WitnessInferred ==
    /\ Separated
    /\ \E np \in SeparatedPartitions :
          /\ np[1].kind = "Inferred"
          /\ np[1] # path_forest["Patient"].root
          /\ np[2].children = EmptyMap
          /\ DOMAIN np[2].extension = { "Coding" }

(***************************************************************************)
(* C28: fce_property                                                       *)

RECURSIVE NestedNamed(_, _, _, _)
\* every extension of an inverted extension map was stored in the separated
\* map under the name it has as fce_property, and the differential has its
\* slice element under the element id `under`, named and marked with that name;
\* the same inside every complex one
NestedNamed(inverted, separated, under, differential) ==
    \A url \in DOMAIN inverted :
        \E name \in DOMAIN separated :
            /\ separated[name].id = inverted[url].id
            /\ separated[name].fce = url
            /\ inverted[url].fce_property = name
            /\ \E k \in 1..Len(differential) :
                  /\ differential[k].id = under \o ":" \o name
                  /\ differential[k].extension = LegacyFce(name)
                  /\ differential[k].slice_name
                        = IF inverted[url].kind = "Simple" THEN Some(name) ELSE None
            /\ inverted[url].kind = "Complex" =>
                  NestedNamed(inverted[url].extension, separated[name].extension,
                              under \o ":" \o name \o ".extension", differential)

\* the separated extensions from which the inverted extension e was built:
\* << property name, extension >>
SeparatedSource(e) ==
    LET parent == NodeAt(sep_forest[e[1][1]].root, Tail(e[1]))
    IN  { << name, parent.extension[name] >> :
            name \in { n \in DOMAIN parent.extension :
                         parent.extension[n].id = ExtensionOf(e).id } }

\* C28: the fce_property of every inverted extension, simple or complex, at any
\* depth, is the property name under which the extension was stored in its
\* parent before the inversion, and that name is what the emitter writes as
\* the SD name, in the legacy-fce marker of the root element, in the id and
\* slice name of the profile element, and in the id, the marker and (for a
\* simple child, the only one that gets a slice name) the slice name of the
\* nested slice elements.
C28_FceProperty ==
    Done =>
        \A e \in ParentExtensions :
            /\ Cardinality(SeparatedSource(e)) = 1
            /\ \A s \in SeparatedSource(e) :
                  /\ s[2].fce = e[2]
                  /\ ExtensionOf(e).fce_property = s[1]
                  /\ \A i \in ExtSdFor(e) :
                        /\ exts[i].name = s[1]
                        /\ exts[i].differential[1].extension = LegacyFce(s[1])
                        /\ ExtensionOf(e).kind = "Complex" =>
                              NestedNamed(ExtensionOf(e).extension, s[2].extension,
                                          "Extension.extension", exts[i].differential)
                  /\ \A i \in ProfileSdFor(e[1][1]) :
                        \E k \in 1..Len(profiles[i].differential) :
                            /\ profiles[i].differential[k].id
                                  = JoinDot(e[1]) \o ".extension:" \o s[1]
                            /\ profiles[i].differential[k].slice_name = Some(s[1])
                            /\ profiles[i].differential[k].type[1][1].profile = Some(<< e[2] >>)

\* three levels: a complex extension stored as `outer` holds a complex one
\* stored as `inner`, which holds a simple one stored as `Coding`
C28_Witness ==
    /\ Done
    /\ \E e \in ParentExtensions :
          /\ e[1] = << "Patient" >>
          /\ ExtensionOf(e).fce_property = "outer"
          /\ ExtensionOf(e).kind = "Complex"
          /\ \E u \in DOMAIN ExtensionOf(e).extension :
                /\ ExtensionOf(e).extension[u].fce_property = "inner"
                /\ ExtensionOf(e).extension[u].kind = "Complex"
                /\ \E v \in DOMAIN ExtensionOf(e).extension[u].extension :
                      ExtensionOf(e).extension[u].extension[v].fce_property = "Coding"
          /\ \E i \in ExtSdFor(e) : \E k \in 1..Len(exts[i].differential) :
                /\ exts[i].differential[k].id = "Extension.extension:inner.extension:Coding"
                /\ exts[i].differential[k].slice_name = Some("Coding")

(***************************************************************************)
(* C29: cardinalities of the nested slices                                 *)

\* the raw attribute with this id
RawOf(id) ==
    aidbox_attributes[CHOOSE i \in 1..Len(aidbox_attributes) : aidbox_attributes[i].id = id]

ElementsAt(differential, id) ==
    { k \in 1..Len(differential) : differential[k].id = id }

RECURSIVE NestedCardinalities(_, _, _)
\* the slice element of every child of the extension map under the pointer ptr,
\* and of the children of the complex ones among them
NestedCardinalities(extension, ptr, differential) ==
    \A url \in DOMAIN extension :
        LET child == extension[url]
            slice == ptr.id \o ":" \o child.fce_property
            raw == RawOf(child.id)
        IN  /\ Cardinality(ElementsAt(differential, slice)) = 1
            /\ \A k \in ElementsAt(differential, slice) :
                  /\ differential[k].path = ptr.path
                  /\ IF child.kind = "Simple"
                     THEN /\ differential[k].min = Some(0)
                          /\ differential[k].max = Some("*")
                     ELSE /\ differential[k].min
                                = IF raw.isRequired = Some(TRUE) THEN Some(1) ELSE None
                          /\ differential[k].max
                                = IF raw.isCollection = Some(TRUE) THEN None ELSE Some("1")
            /\ child.kind = "Complex" =>
                  /\ Cardinality(ElementsAt(differential, slice \o ".value[x]")) = 1
                  /\ \A k \in ElementsAt(differential, slice \o ".value[x]") :
                        /\ differential[k].min = Some(0)
                        /\ differential[k].max = Some("0")
                  /\ NestedCardinalities(child.extension,
                                         [id |-> slice \o ".extension",
                                          path |-> ptr.path \o ".extension"],
                                         differential)

\* C29: inside a complex extension, the slice element of a simple child has
\* min 0 and max "*" whatever the child's required and array flags, that of a
\* complex child has min 1 only if the child is required (else unset) and max
\* "1" only if it is not an array (else unset); in both cases its id is the
\* parent pointer's id, ":" and fce_property, and its path the parent
\* pointer's path; the value[x] element of a complex child has min 0, max "0".
C29_NestedCardinalities ==
    Done =>
        \A e \in ComplexParentExtensions : \A i \in ExtSdFor(e) :
            NestedCardinalities(ExtensionOf(e).extension,
                                [id |-> "Extension.extension", path |-> "Extension.extension"],
                                exts[i].differential)

\* a complex extension holding a required array complex child (min 1, max
\* unset) that holds a required array simple child (min 0, max "*")
C29_Witness ==
    /\ Done
    /\ \E e \in ComplexParentExtensions : \E i \in ExtSdFor(e) :
          /\ \E k \in ElementsAt(exts[i].differential, "Extension.extension:inner") :
                /\ exts[i].differential[k].min = Some(1)
                /\ exts[i].differential[k].max = None
                /\ exts[i].differential[k].path = "Extension.extension"
          /\ \E k \in ElementsAt(exts[i].differential,
                                 "Extension.extension:inner.extension:Coding") :
                /\ exts[i].differential[k].min = Some(0)
                /\ exts[i].differential[k].max = Some("*")
                /\ exts[i].differential[k].path = "Extension.extension.extension"
                /\ exts[i].differential[k].slice_name = Some("Coding")
    /\ RawOf("n2").isRequired = Some(TRUE) /\ RawOf("n2").isCollection = Some(TRUE)
    /\ RawOf("n3").isRequired = Some(TRUE) /\ RawOf("n3").isCollection = Some(TRUE)

\* an optional, single complex child: min unset, max "1"
C29_WitnessOptional ==
    /\ Done
    /\ \E e \in ComplexParentExtensions : \E i \in ExtSdFor(e) :
          \E k \in ElementsAt(exts[i].differential, "Extension.extension:inner") :
              /\ exts[i].differential[k].min = None
              /\ exts[i].differential[k].max = Some("1")
              /\ exts[i].differential[k].slice_name = None
              /\ RawOf("n2").isRequired = None /\ RawOf("n2").isCollection = None

(***************************************************************************)
(* C30: the shape of the raw forest                                        *)

Prefixes(path) == { SubSeq(path, 1, k) : k \in 0..Len(path) }

\* the paths of the attributes of a resource type among the first n inserted
PathsOf(rt, n) ==
    { typed_attributes[i].path : i \in { j \in 1..n : typed_attributes[j].resource_type = rt } }

RECURSIVE RawNodes(_, _)
\* the nodes of a raw subtree: << path, node >>
RawNodes(node, at) ==
    { << at, node >> }
    \cup UNION { RawNodes(node.children[name], Append(at, name)) :
                   name \in DOMAIN node.children }

RECURSIVE LiftedNodes(_, _)
\* the nodes of a lifted subtree: << path, node >>
LiftedNodes(node, at) ==
    { << at, node >> }
    \cup UNION { LiftedNodes(node.children[name], Append(at, name)) :
                   name \in DOMAIN node.children }

\* path::Forest::build_from has run
Lifted == pc \in { "separate", "invert", "emit", "done" }

\* C30: after the insertion of any sequence of typed attributes the forest has
\* a trie for a resource type iff some attribute of the sequence has it, the
\* nodes of a trie are exactly the prefixes of the paths of the attributes of
\* its resource type, rejected duplicates included, and every node without
\* children holds an attribute; so in the lifted forest every Inferred node
\* has a child, and a node is Inferred iff no attribute was declared at
\* exactly its path.
C30_ForestShape ==
    /\ DOMAIN raw_forest = { typed_attributes[i].resource_type : i \in 1..Inserted }
    /\ \A rt \in DOMAIN raw_forest :
          /\ { pn[1] : pn \in RawNodes(raw_forest[rt].root, << >>) }
                = UNION { Prefixes(path) : path \in PathsOf(rt, Inserted) }
          /\ \A pn \in RawNodes(raw_forest[rt].root, << >>) :
                /\ pn[2].children = EmptyMap => pn[2].attribute # None
                /\ pn[2].attribute = None <=> pn[1] \notin PathsOf(rt, Inserted)
    /\ Lifted =>
          /\ DOMAIN path_forest = DOMAIN raw_forest
          /\ \A rt \in DOMAIN path_forest :
                /\ { pn[1] : pn \in LiftedNodes(path_forest[rt].root, << >>) }
                      = UNION { Prefixes(path) : path \in PathsOf(rt, Inserted) }
                /\ \A pn \in LiftedNodes(path_forest[rt].root, << >>) :
                      /\ pn[2].kind = "Inferred" => pn[2].children # EmptyMap
                      /\ pn[2].kind = "Inferred" <=> pn[1] \notin PathsOf(rt, Inserted)

\* [outer, inner] inserted twice and then [outer]: one rejected duplicate, the
\* root is inferred with the single child outer, which holds the third attribute
C30_Witness ==
    /\ Lifted
    /\ Len(typed_attributes) = 3
    /\ typed_attributes[1].path = << "outer", "inner" >>
    /\ typed_attributes[2].path = << "outer", "inner" >>
    /\ typed_attributes[3].path = << "outer" >>
    /\ DOMAIN path_forest = { "Patient" }
    /\ Len(raw_errors) = 1
    /\ path_forest["Patient"].root.kind = "Inferred"
    /\ DOMAIN path_forest["Patient"].root.children = { "outer" }
    /\ path_forest["Patient"].root.children["outer"].id = "a3"
    /\ path_forest["Patient"].root.children["outer"].children["inner"].id = "a1"

\* a two-step path alone: both prefixes are attribute-less nodes with a child
C30_WitnessInferred ==
    /\ Lifted
    /\ Len(typed_attributes) = 1
    /\ typed_attributes[1].path = << "outer", "inner" >>
    /\ path_forest["Patient"].root.kind = "Inferred"
    /\ path_forest["Patient"].root.children["outer"].kind = "Inferred"
====
